---- MODULE Spec2Model ----
(***************************************************************************)
(* The shedoc parser (package shedoc): a line-oriented state machine that  *)
(* reads a shell script and assembles a Document (Shebang, Meta, Blocks,   *)
(* Warnings).  Strings are TLA+ strings; the regular expressions and the   *)
(* strings.* helpers of the Go source are operators over their characters. *)
(***************************************************************************)
EXTENDS Integers, Sequences, FiniteSets, TLC

(***************************************************************************)
(* Bounds of the model.                                                    *)
(***************************************************************************)
MaxLines == 4

(***************************************************************************)
(* Strings: the parts of Go's strings package the parser uses.             *)
(***************************************************************************)
Ch(s, i) == SubSeq(s, i, i)

\* s[a:b] of Go with 0-based a, b.
Slice(s, a, b) == SubSeq(s, a + 1, b)

\* s[a:] of Go.
SliceFrom(s, a) == SubSeq(s, a + 1, Len(s))

\* unicode.IsSpace restricted to the characters a line can hold here; the
\* regexp class \s is the same set.
SpaceChars == {" ", "\t", "\r", "\f"}

IsSpace(c) == c \in SpaceChars

Digits == {"0", "1", "2", "3", "4", "5", "6", "7", "8", "9"}

Letters ==
    {"a", "b", "c", "d", "e", "f", "g", "h", "i", "j", "k", "l", "m",
     "n", "o", "p", "q", "r", "s", "t", "u", "v", "w", "x", "y", "z",
     "A", "B", "C", "D", "E", "F", "G", "H", "I", "J", "K", "L", "M",
     "N", "O", "P", "Q", "R", "S", "T", "U", "V", "W", "X", "Y", "Z"}

\* the regexp class \w
WordChars == Letters \cup Digits \cup {"_"}

IsWord(c) == c \in WordChars

\* the regexp class [\w-]
WordDashChars == WordChars \cup {"-"}

\* Index (1-based) of the first character at or after position i that is
\* not in class, Len(s) + 1 when there is none: the end of a greedy run.
RunEnd(s, i, class) ==
    CHOOSE j \in i..(Len(s) + 1) :
        /\ \A k \in i..(j - 1) : Ch(s, k) \in class
        /\ (j = Len(s) + 1 \/ Ch(s, j) \notin class)

\* Index (1-based) of the first character at or after position i that is
\* in class, Len(s) + 1 when there is none.
RunEndNot(s, i, class) ==
    CHOOSE j \in i..(Len(s) + 1) :
        /\ \A k \in i..(j - 1) : Ch(s, k) \notin class
        /\ (j = Len(s) + 1 \/ Ch(s, j) \in class)

\* Index (1-based) of the last character that is not a space, 0 when none.
LastNonSpace(s) ==
    IF \A k \in 1..Len(s) : IsSpace(Ch(s, k)) THEN 0
    ELSE CHOOSE j \in 1..Len(s) :
            /\ ~IsSpace(Ch(s, j))
            /\ \A k \in (j + 1)..Len(s) : IsSpace(Ch(s, k))

\* strings.TrimSpace, given the index of the last character it keeps.
TrimSpaceTo(s, last) ==
    IF last = 0 THEN "" ELSE SubSeq(s, RunEnd(s, 1, SpaceChars), last)

\* strings.TrimSpace
TrimSpace(s) == TrimSpaceTo(s, LastNonSpace(s))

\* strings.HasPrefix
HasPrefix(s, prefix) ==
    Len(s) >= Len(prefix) /\ SubSeq(s, 1, Len(prefix)) = prefix

\* strings.HasSuffix
HasSuffix(s, suffix) ==
    Len(s) >= Len(suffix) /\ SubSeq(s, Len(s) - Len(suffix) + 1, Len(s)) = suffix

\* strings.IndexAny(s, " \t"): 0-based index of the first blank or tab, -1
\* when there is none.
BlankOrTab == {" ", "\t"}

\* The 0-based index, or -1, for the 1-based position j of a search in s.
IndexAt(s, j) == IF j = Len(s) + 1 THEN -1 ELSE j - 1

IndexAnyBlank(s) == IndexAt(s, RunEndNot(s, 1, BlankOrTab))

\* A variant of IndexEquals that finds the last "=".
IndexEqualsLast(s) ==
    IF \A k \in 1..Len(s) : Ch(s, k) # "=" THEN -1
    ELSE (CHOOSE j \in 1..Len(s) :
            Ch(s, j) = "=" /\ \A k \in (j + 1)..Len(s) : Ch(s, k) # "=") - 1

\* strings.Index(s, "="): 0-based index of the first "=", -1 when none.
IndexEquals(s) == IndexAt(s, RunEndNot(s, 1, {"="}))

RECURSIVE JoinFrom(_, _, _)
JoinFrom(elems, sep, i) ==
    IF i > Len(elems) THEN ""
    ELSE IF i = Len(elems) THEN elems[i]
    ELSE elems[i] \o sep \o JoinFrom(elems, sep, i + 1)

\* strings.Join
Join(elems, sep) == JoinFrom(elems, sep, 1)

\* The nil pointer / nil interface, and a pointer to v.
Nil == << >>

Ptr(v) == << v >>

NoError == Nil

\* fmt.Errorf / errors.New: an error value carrying its message.
Errorf(msg) == << msg >>

\* err.Error()
ErrorText(err) == err[1]

\* The %q verb of fmt: the string in double quotes, with quotes, backslashes
\* and tabs escaped.
RECURSIVE QuoteFrom(_, _)
QuoteFrom(s, i) ==
    IF i > Len(s) THEN ""
    ELSE (CASE Ch(s, i) = "\"" -> "\\\""
            [] Ch(s, i) = "\\" -> "\\\\"
            [] Ch(s, i) = "\t" -> "\\t"
            [] OTHER -> Ch(s, i)) \o QuoteFrom(s, i + 1)

Quote(s) == "\"" \o QuoteFrom(s, 1) \o "\""

(***************************************************************************)
(* value.go: the value notation <name>, [name], [name=default],           *)
(* <name...>, [name...].                                                   *)
(***************************************************************************)
ZeroValue == [Name |-> "", Required |-> FALSE, Default |-> "", Variadic |-> FALSE]

\* A variant of ParseValueDefault that drops the default of a required
\* value instead of rejecting the notation.
ParseValueDefaultDropped(s, inner, idx, required, variadic) ==
    IF idx >= 0 THEN
        IF Slice(inner, 0, idx) = "" THEN
            [val |-> ZeroValue,
             err |-> Errorf("invalid value notation: " \o Quote(s)
                            \o " (empty name before =)")]
        ELSE
            [val |-> [Name |-> Slice(inner, 0, idx), Required |-> required,
                      Default |-> IF required THEN "" ELSE SliceFrom(inner, idx + 1),
                      Variadic |-> variadic],
             err |-> NoError]
    ELSE
        [val |-> [Name |-> inner, Required |-> required, Default |-> "",
                  Variadic |-> variadic],
         err |-> NoError]

\* ParseValue, the split of inner at the first "=" (idx, -1 when none).
ParseValueDefault(s, inner, idx, required, variadic) ==
    IF idx >= 0 THEN
        IF required THEN
            [val |-> ZeroValue,
             err |-> Errorf("invalid value notation: " \o Quote(s)
                            \o " (defaults not allowed in required values)")]
        ELSE IF Slice(inner, 0, idx) = "" THEN
            [val |-> ZeroValue,
             err |-> Errorf("invalid value notation: " \o Quote(s)
                            \o " (empty name before =)")]
        ELSE
            [val |-> [Name |-> Slice(inner, 0, idx), Required |-> required,
                      Default |-> SliceFrom(inner, idx + 1), Variadic |-> variadic],
             err |-> NoError]
    ELSE
        [val |-> [Name |-> inner, Required |-> required, Default |-> "",
                  Variadic |-> variadic],
         err |-> NoError]

\* ParseValue, the name once a variadic suffix is stripped.
ParseValueName(s, inner, required, variadic) ==
    IF inner = "" THEN
        [val |-> ZeroValue,
         err |-> Errorf("invalid value notation: " \o Quote(s)
                        \o " (empty name before ...)")]
    ELSE ParseValueDefault(s, inner, IndexEquals(inner), required, variadic)

\* A variant of ParseValueInner that marks the value variadic and leaves
\* the "..." in the name.
ParseValueInnerKeepsDots(s, inner, required) ==
    IF inner = "" THEN
        [val |-> ZeroValue,
         err |-> Errorf("invalid value notation: " \o Quote(s) \o " (empty name)")]
    ELSE IF HasSuffix(inner, "...") THEN
        ParseValueName(s, inner, required, TRUE)
    ELSE ParseValueDefault(s, inner, IndexEquals(inner), required, FALSE)

\* ParseValue, the content between the brackets.
ParseValueInner(s, inner, required) ==
    IF inner = "" THEN
        [val |-> ZeroValue,
         err |-> Errorf("invalid value notation: " \o Quote(s) \o " (empty name)")]
    ELSE IF HasSuffix(inner, "...") THEN
        ParseValueName(s, Slice(inner, 0, Len(inner) - 3), required, TRUE)
    ELSE ParseValueDefault(s, inner, IndexEquals(inner), required, FALSE)

\* ParseValue, on the trimmed string.
ParseValueTrimmed(s) ==
    IF Len(s) < 3 THEN
        [val |-> ZeroValue, err |-> Errorf("invalid value notation: " \o Quote(s))]
    ELSE IF Ch(s, 1) = "<" /\ Ch(s, Len(s)) = ">" THEN
        ParseValueInner(s, Slice(s, 1, Len(s) - 1), TRUE)
    ELSE IF Ch(s, 1) = "[" /\ Ch(s, Len(s)) = "]" THEN
        ParseValueInner(s, Slice(s, 1, Len(s) - 1), FALSE)
    ELSE [val |-> ZeroValue,
          err |-> Errorf("invalid value notation: " \o Quote(s)
                         \o " (must be <...> or [...])")]

ParseValue(str) == ParseValueTrimmed(TrimSpace(str))

\* internal/generate: formatValue, the notation of a Value.
formatValueName(v) == IF v.Variadic THEN v.Name \o "..." ELSE v.Name

formatValue(v) ==
    IF v.Required THEN "<" \o formatValueName(v) \o ">"
    ELSE IF v.Default # "" THEN "[" \o formatValueName(v) \o "=" \o v.Default \o "]"
    ELSE "[" \o formatValueName(v) \o "]"

(***************************************************************************)
(* tag.go: one parser per documentation tag.                               *)
(***************************************************************************)
\* splitFirstToken: the first whitespace-delimited token and the rest.
splitFirstTokenAt(s, idx) ==
    IF idx < 0 THEN [token |-> s, rest |-> ""]
    ELSE [token |-> Slice(s, 0, idx), rest |-> SliceFrom(s, idx + 1)]

splitFirstTokenTrimmed(s) == splitFirstTokenAt(s, IndexAnyBlank(s))

splitFirstToken(str) == splitFirstTokenTrimmed(TrimSpace(str))

\* The loop of consumeFlags; text is already trimmed.  One iteration takes
\* a spelling (consumeFlagsLoop), trims what follows it (consumeFlagsName)
\* and goes on only after a "|" separator (consumeFlagsPipe).
RECURSIVE consumeFlagsLoop(_, _, _)
\* A variant of consumeFlagsPipe that goes on to the next spelling with or
\* without a "|" before it.
consumeFlagsPipeOptional(text, short, long) ==
    IF HasPrefix(text, "|")
    THEN consumeFlagsLoop(TrimSpace(SliceFrom(text, 1)), short, long)
    ELSE consumeFlagsLoop(text, short, long)

consumeFlagsPipe(text, short, long) ==
    IF HasPrefix(text, "|")
    THEN consumeFlagsLoop(TrimSpace(SliceFrom(text, 1)), short, long)
    ELSE [rest |-> text, short |-> short, long |-> long]

consumeFlagsName(isLong, tok, short, long) ==
    consumeFlagsPipe(TrimSpace(tok.rest),
                     IF isLong THEN short ELSE tok.token,
                     IF isLong THEN tok.token ELSE long)

consumeFlagsLoop(text, short, long) ==
    IF text = "" \/ ~HasPrefix(text, "-")
    THEN [rest |-> text, short |-> short, long |-> long]
    ELSE consumeFlagsName(HasPrefix(text, "--"), splitFirstToken(text), short, long)

consumeFlags(text, short, long) == consumeFlagsLoop(TrimSpace(text), short, long)

\* parseFlag, after the flag spellings c are consumed.
parseFlagFlags(c, line) ==
    [result |-> Ptr([Short |-> c.short, Long |-> c.long,
                     Description |-> TrimSpace(c.rest), Line |-> line]),
     err |-> NoError]

\* parseFlag, on the trimmed text.
parseFlagText(text, line) ==
    IF text = "" THEN
        [result |-> Nil, err |-> Errorf("@flag requires at least one flag name")]
    ELSE parseFlagFlags(consumeFlags(text, "", ""), line)

parseFlag(text0, line) == parseFlagText(TrimSpace(text0), line)

\* A variant of parseOptionValue that keeps the remainder as it is.
parseOptionValueUntrimmed(c, tok, v, line) ==
    IF v.err # NoError THEN
        [result |-> Nil, err |-> Errorf("@option value: " \o ErrorText(v.err))]
    ELSE
        [result |-> Ptr([Short |-> c.short, Long |-> c.long, Value |-> v.val,
                         Description |-> tok.rest, Line |-> line]),
         err |-> NoError]

\* parseOption, from the value token on: tok is the token after the flag
\* spellings c and v the result of ParseValue on it.
parseOptionValue(c, tok, v, line) ==
    IF v.err # NoError THEN
        [result |-> Nil, err |-> Errorf("@option value: " \o ErrorText(v.err))]
    ELSE
        [result |-> Ptr([Short |-> c.short, Long |-> c.long, Value |-> v.val,
                         Description |-> TrimSpace(tok.rest), Line |-> line]),
         err |-> NoError]

\* parseOption, after the flag spellings c are consumed.
parseOptionToken(c, tok, line) ==
    IF tok.token = "" THEN
        [result |-> Nil,
         err |-> Errorf("@option requires a value notation (e.g., <value> or [value])")]
    ELSE parseOptionValue(c, tok, ParseValue(tok.token), line)

parseOptionFlags(c, line) ==
    parseOptionToken(c, splitFirstToken(TrimSpace(c.rest)), line)

\* parseOption, on the trimmed text.
parseOptionText(text, line) ==
    IF text = "" THEN
        [result |-> Nil,
         err |-> Errorf("@option requires at least one flag name and a value")]
    ELSE parseOptionFlags(consumeFlags(text, "", ""), line)

parseOption(text0, line) == parseOptionText(TrimSpace(text0), line)

\* parseOperand, from the value token on.
parseOperandValue(tok, v, line) ==
    IF v.err # NoError THEN
        [result |-> Nil, err |-> Errorf("@operand value: " \o ErrorText(v.err))]
    ELSE
        [result |-> Ptr([Value |-> v.val, Description |-> TrimSpace(tok.rest),
                         Line |-> line]),
         err |-> NoError]

parseOperandToken(tok, line) == parseOperandValue(tok, ParseValue(tok.token), line)

\* parseOperand, on the trimmed text.
parseOperandText(text, line) ==
    IF text = "" THEN
        [result |-> Nil, err |-> Errorf("@operand requires a value notation")]
    ELSE parseOperandToken(splitFirstToken(text), line)

parseOperand(text0, line) == parseOperandText(TrimSpace(text0), line)

parseEnvText(text, tok, line) ==
    IF text = "" THEN
        [result |-> Nil, err |-> Errorf("@env requires a variable name")]
    ELSE
        [result |-> Ptr([Name |-> tok.token, Description |-> TrimSpace(tok.rest),
                         Line |-> line]),
         err |-> NoError]

parseEnvTrimmed(text, line) == parseEnvText(text, splitFirstTokenTrimmed(text), line)

parseEnv(text0, line) == parseEnvTrimmed(TrimSpace(text0), line)

parseReadsText(text, tok, line) ==
    IF text = "" THEN
        [result |-> Nil, err |-> Errorf("@reads requires a path")]
    ELSE
        [result |-> Ptr([Path |-> tok.token, Description |-> TrimSpace(tok.rest),
                         Line |-> line]),
         err |-> NoError]

parseReadsTrimmed(text, line) == parseReadsText(text, splitFirstTokenTrimmed(text), line)

parseReads(text0, line) == parseReadsTrimmed(TrimSpace(text0), line)

\* A variant of parseExitText that takes only digits as an exit code.
parseExitTextNumeric(text, tok, line) ==
    IF text = "" THEN
        [result |-> Nil, err |-> Errorf("@exit requires an exit code")]
    ELSE IF \E i \in 1..Len(tok.token) : Ch(tok.token, i) \notin Digits THEN
        [result |-> Nil, err |-> Errorf("@exit requires a numeric exit code")]
    ELSE
        [result |-> Ptr([Code |-> tok.token, Description |-> TrimSpace(tok.rest),
                         Line |-> line]),
         err |-> NoError]

parseExitText(text, tok, line) ==
    IF text = "" THEN
        [result |-> Nil, err |-> Errorf("@exit requires an exit code")]
    ELSE
        [result |-> Ptr([Code |-> tok.token, Description |-> TrimSpace(tok.rest),
                         Line |-> line]),
         err |-> NoError]

parseExitTrimmed(text, line) == parseExitText(text, splitFirstTokenTrimmed(text), line)

parseExit(text0, line) == parseExitTrimmed(TrimSpace(text0), line)

parseSetsText(text, tok, line) ==
    IF text = "" THEN
        [result |-> Nil, err |-> Errorf("@sets requires a variable name")]
    ELSE
        [result |-> Ptr([Name |-> tok.token, Description |-> TrimSpace(tok.rest),
                         Line |-> line]),
         err |-> NoError]

parseSetsTrimmed(text, line) == parseSetsText(text, splitFirstTokenTrimmed(text), line)

parseSets(text0, line) == parseSetsTrimmed(TrimSpace(text0), line)

parseWritesText(text, tok, line) ==
    IF text = "" THEN
        [result |-> Nil, err |-> Errorf("@writes requires a path")]
    ELSE
        [result |-> Ptr([Path |-> tok.token, Description |-> TrimSpace(tok.rest),
                         Line |-> line]),
         err |-> NoError]

parseWritesTrimmed(text, line) == parseWritesText(text, splitFirstTokenTrimmed(text), line)

parseWrites(text0, line) == parseWritesTrimmed(TrimSpace(text0), line)

\* A pointer stored in an `any`: its dynamic type and the record it points to.
AnyOf(type, ptr) == IF ptr = Nil THEN Nil ELSE Ptr([type |-> type, v |-> ptr[1]])

\* What parseTag returns for the result r of the parser of a tag kind.
tagResult(name, type, r) ==
    [tagName |-> name, result |-> AnyOf(type, r.result), err |-> r.err]

\* parseTag: dispatch on the tag name.
parseTag(name, text, line) ==
    CASE name = "flag" -> tagResult(name, "Flag", parseFlag(text, line))
      [] name = "option" -> tagResult(name, "Option", parseOption(text, line))
      [] name = "operand" -> tagResult(name, "Operand", parseOperand(text, line))
      [] name = "env" -> tagResult(name, "Env", parseEnv(text, line))
      [] name = "reads" -> tagResult(name, "Reads", parseReads(text, line))
      [] name = "stdin" ->
            tagResult(name, "Stdin",
                      [result |-> Ptr([Description |-> text, Line |-> line]),
                       err |-> NoError])
      [] name = "exit" -> tagResult(name, "Exit", parseExit(text, line))
      [] name = "stdout" ->
            tagResult(name, "Stdout",
                      [result |-> Ptr([Description |-> text, Line |-> line]),
                       err |-> NoError])
      [] name = "stderr" ->
            tagResult(name, "Stderr",
                      [result |-> Ptr([Description |-> text, Line |-> line]),
                       err |-> NoError])
      [] name = "sets" -> tagResult(name, "Sets", parseSets(text, line))
      [] name = "writes" -> tagResult(name, "Writes", parseWrites(text, line))
      [] name = "deprecated" ->
            tagResult(name, "Deprecated",
                      [result |-> Ptr([Message |-> text, Line |-> line]),
                       err |-> NoError])
      [] OTHER ->
            [tagName |-> name, result |-> Nil, err |-> Errorf("unknown tag @" \o name)]

(***************************************************************************)
(* The compiled patterns for line classification.  A match is a record    *)
(* [ok, m1, m2] holding the submatches, as FindStringSubmatch returns;     *)
(* greedy quantifiers take the longest run the rest of the pattern allows. *)
(***************************************************************************)
NoMatch == [ok |-> FALSE, m1 |-> "", m2 |-> ""]

\* ^#!(.+)$
reShebang(line) ==
    IF HasPrefix(line, "#!") /\ Len(line) >= 3
    THEN [ok |-> TRUE, m1 |-> SliceFrom(line, 2), m2 |-> ""]
    ELSE NoMatch

\* ^#\?/(\w+)\s+(.+)$ : when the blanks run to the end of the line, \s+ gives
\* its last character back to (.+).
reShedocInline(line) ==
    IF ~HasPrefix(line, "#?/") THEN NoMatch
    ELSE
        LET wEnd == RunEnd(line, 4, WordChars)
            sEnd == RunEnd(line, wEnd, SpaceChars)
        IN  IF wEnd = 4 \/ sEnd = wEnd THEN NoMatch
            ELSE IF sEnd <= Len(line) THEN
                [ok |-> TRUE, m1 |-> SubSeq(line, 4, wEnd - 1),
                 m2 |-> SubSeq(line, sEnd, Len(line))]
            ELSE IF sEnd - wEnd >= 2 THEN
                [ok |-> TRUE, m1 |-> SubSeq(line, 4, wEnd - 1),
                 m2 |-> SubSeq(line, Len(line), Len(line))]
            ELSE NoMatch

\* ^#\?/(\w+)\s*$
reShedocOpen(line) ==
    IF ~HasPrefix(line, "#?/") THEN NoMatch
    ELSE
        LET wEnd == RunEnd(line, 4, WordChars)
            sEnd == RunEnd(line, wEnd, SpaceChars)
        IN  IF wEnd > 4 /\ sEnd = Len(line) + 1
            THEN [ok |-> TRUE, m1 |-> SubSeq(line, 4, wEnd - 1), m2 |-> ""]
            ELSE NoMatch

\* ^#@/(\w*)\s*(.*)$
reSheblockOpen(line) ==
    IF ~HasPrefix(line, "#@/") THEN NoMatch
    ELSE
        LET wEnd == RunEnd(line, 4, WordChars)
            sEnd == RunEnd(line, wEnd, SpaceChars)
        IN  [ok |-> TRUE, m1 |-> SubSeq(line, 4, wEnd - 1),
             m2 |-> SubSeq(line, sEnd, Len(line))]

\* ^ # ?(.*)$
reContinuation(line) ==
    IF ~HasPrefix(line, " #") THEN NoMatch
    ELSE IF HasPrefix(line, " # ") THEN [ok |-> TRUE, m1 |-> SliceFrom(line, 3), m2 |-> ""]
    ELSE [ok |-> TRUE, m1 |-> SliceFrom(line, 2), m2 |-> ""]

\* ^ ##\s*$
reBlockClose(line) ==
    IF HasPrefix(line, " ##") /\ RunEnd(line, 4, SpaceChars) = Len(line) + 1
    THEN [ok |-> TRUE, m1 |-> "", m2 |-> ""]
    ELSE NoMatch

\* ^\s*(\w[\w-]*)\s*\(\)\s*\{?
reFuncParen(line) ==
    LET i == RunEnd(line, 1, SpaceChars) IN
    IF i > Len(line) \/ ~IsWord(Ch(line, i)) THEN NoMatch
    ELSE
        LET nEnd == RunEnd(line, i + 1, WordDashChars)
            sEnd == RunEnd(line, nEnd, SpaceChars)
        IN  IF sEnd + 1 <= Len(line) /\ SubSeq(line, sEnd, sEnd + 1) = "()"
            THEN [ok |-> TRUE, m1 |-> SubSeq(line, i, nEnd - 1), m2 |-> ""]
            ELSE NoMatch

\* ^\s*function\s+(\w[\w-]*)
reFuncKeyword(line) ==
    LET i == RunEnd(line, 1, SpaceChars) IN
    IF i + 7 > Len(line) \/ SubSeq(line, i, i + 7) # "function" THEN NoMatch
    ELSE
        LET sEnd == RunEnd(line, i + 8, SpaceChars) IN
        IF sEnd = i + 8 \/ sEnd > Len(line) \/ ~IsWord(Ch(line, sEnd)) THEN NoMatch
        ELSE [ok |-> TRUE,
              m1 |-> SubSeq(line, sEnd, RunEnd(line, sEnd + 1, WordDashChars) - 1),
              m2 |-> ""]

\* matchFuncDecl: the function name when line declares a function, else "".
matchFuncDecl(line) ==
    IF reFuncKeyword(line).ok THEN reFuncKeyword(line).m1
    ELSE IF reFuncParen(line).ok THEN reFuncParen(line).m1
    ELSE ""

\* splitTag: whether a content line starts with @tagname, the name and the
\* remaining text.
splitTag(content) ==
    LET trimmed == TrimSpace(content)
        rest == SliceFrom(trimmed, 1)
        idx == IndexAnyBlank(rest)
    IN  IF ~HasPrefix(trimmed, "@") THEN [name |-> "", text |-> "", ok |-> FALSE]
        ELSE IF idx < 0 THEN [name |-> rest, text |-> "", ok |-> TRUE]
        ELSE [name |-> Slice(rest, 0, idx),
              text |-> TrimSpace(SliceFrom(rest, idx + 1)), ok |-> TRUE]

\* A variant of parseSheblockHeader that keeps the trailing text as the
\* name whatever the keyword.
parseSheblockHeaderKeepsName(vis, extra) ==
    CASE vis = "command" -> [visibility |-> "command", name |-> extra]
      [] vis = "subcommand" -> [visibility |-> "subcommand", name |-> extra]
      [] vis = "public" -> [visibility |-> "public", name |-> extra]
      [] vis = "private" -> [visibility |-> "private", name |-> extra]
      [] vis = "" -> [visibility |-> "public", name |-> extra]
      [] OTHER -> [visibility |-> "public", name |-> extra]

\* parseSheblockHeader: the visibility and the optional name of an opener.
parseSheblockHeader(vis, extra) ==
    CASE vis = "command" -> [visibility |-> "command", name |-> ""]
      [] vis = "subcommand" -> [visibility |-> "subcommand", name |-> extra]
      [] vis = "public" -> [visibility |-> "public", name |-> ""]
      [] vis = "private" -> [visibility |-> "private", name |-> ""]
      [] vis = "" -> [visibility |-> "public", name |-> ""]
      [] OTHER -> [visibility |-> "public", name |-> ""]

joinDesc(existing, addition) ==
    IF existing = "" THEN addition ELSE existing \o " " \o addition

\* appendTagDescription: append continuation text to the description (the
\* message, for Deprecated) of the record an `any` result points to.
appendTagDescription(result, text) ==
    IF result = Nil THEN result
    ELSE IF result[1].type \in {"Flag", "Option", "Operand", "Env", "Reads", "Stdin",
                                "Exit", "Stdout", "Stderr", "Sets", "Writes"}
    THEN Ptr([result[1] EXCEPT !.v.Description = joinDesc(@, text)])
    ELSE IF result[1].type = "Deprecated"
    THEN Ptr([result[1] EXCEPT !.v.Message = joinDesc(@, text)])
    ELSE result

(***************************************************************************)
(* The document model (model.go) and the parser struct.                    *)
(***************************************************************************)
stateTop == 0

stateShedoc == 1

stateSheblock == 2

EmptyMeta ==
    [Name |-> "", Version |-> "", Synopsis |-> "", Description |-> "",
     Examples |-> "", Section |-> "", Author |-> "", License |-> ""]

\* &Document{}
EmptyDocument ==
    [Path |-> "", Shebang |-> "", Meta |-> EmptyMeta, Blocks |-> << >>,
     Warnings |-> << >>]

\* &Block{Visibility: visibility, Name: name, Line: line}
NewBlock(visibility, name, line) ==
    [Visibility |-> visibility, Name |-> name, Description |-> "",
     FunctionName |-> "", Line |-> line,
     Flags |-> << >>, Options |-> << >>, Operands |-> << >>, Env |-> << >>,
     Reads |-> << >>, Stdin |-> Nil, Exit |-> << >>, Stdout |-> Nil,
     Stderr |-> Nil, Sets |-> << >>, Writes |-> << >>, Deprecated |-> Nil]

\* &parser{scanner: ..., doc: &Document{}}
NewParser ==
    [doc |-> EmptyDocument, line |-> 0, state |-> stateTop,
     shedocTag |-> "", shedocLines |-> << >>,
     block |-> Nil, blockDesc |-> << >>, inTags |-> FALSE,
     currentTag |-> "", currentResult |-> Nil, tagContLines |-> << >>]

\* A variant of Warning that leaves Line at its zero value.
WarningNoLine(line, message) == [Line |-> 0, Message |-> message]

Warning(line, message) == [Line |-> line, Message |-> message]

\* A variant of setShedocMeta that, besides recording the Warning, files
\* the value of a tag it does not know under Meta.Description.
setShedocMetaKeepsUnknown(q, tag, value) ==
    CASE tag = "name" -> [q EXCEPT !.doc.Meta.Name = value]
      [] tag = "version" -> [q EXCEPT !.doc.Meta.Version = value]
      [] tag = "synopsis" -> [q EXCEPT !.doc.Meta.Synopsis = value]
      [] tag = "description" -> [q EXCEPT !.doc.Meta.Description = value]
      [] tag = "examples" -> [q EXCEPT !.doc.Meta.Examples = value]
      [] tag = "section" -> [q EXCEPT !.doc.Meta.Section = value]
      [] tag = "author" -> [q EXCEPT !.doc.Meta.Author = value]
      [] tag = "license" -> [q EXCEPT !.doc.Meta.License = value]
      [] OTHER ->
            [q EXCEPT !.doc.Meta.Description = value,
                      !.doc.Warnings =
                Append(@, Warning(q.line, "unknown shedoc tag: #?/" \o tag))]

setShedocMeta(q, tag, value) ==
    CASE tag = "name" -> [q EXCEPT !.doc.Meta.Name = value]
      [] tag = "version" -> [q EXCEPT !.doc.Meta.Version = value]
      [] tag = "synopsis" -> [q EXCEPT !.doc.Meta.Synopsis = value]
      [] tag = "description" -> [q EXCEPT !.doc.Meta.Description = value]
      [] tag = "examples" -> [q EXCEPT !.doc.Meta.Examples = value]
      [] tag = "section" -> [q EXCEPT !.doc.Meta.Section = value]
      [] tag = "author" -> [q EXCEPT !.doc.Meta.Author = value]
      [] tag = "license" -> [q EXCEPT !.doc.Meta.License = value]
      [] OTHER ->
            [q EXCEPT !.doc.Warnings =
                Append(@, Warning(q.line, "unknown shedoc tag: #?/" \o tag))]

\* A variant of finalizeShedoc that sets nothing for a metadata block
\* without lines.
finalizeShedocSkipsEmpty(q) ==
    LET q1 == IF q.shedocTag # "" /\ q.shedocLines # << >>
              THEN setShedocMeta(q, q.shedocTag, Join(q.shedocLines, "\n"))
              ELSE q
    IN  [q1 EXCEPT !.shedocTag = "", !.shedocLines = << >>]

finalizeShedoc(q) ==
    LET q1 == IF q.shedocTag # ""
              THEN setShedocMeta(q, q.shedocTag, Join(q.shedocLines, "\n"))
              ELSE q
    IN  [q1 EXCEPT !.shedocTag = "", !.shedocLines = << >>]

\* A variant of applyTagToBlock in which the collection fields put the new
\* record in front.
applyTagToBlockPrepend(q, name, result) ==
    LET t == result[1].type
        v == result[1].v
    IN  CASE name = "flag" /\ t = "Flag" -> [q EXCEPT !.block[1].Flags = <<v>> \o @]
          [] name = "option" /\ t = "Option" -> [q EXCEPT !.block[1].Options = <<v>> \o @]
          [] name = "operand" /\ t = "Operand" -> [q EXCEPT !.block[1].Operands = <<v>> \o @]
          [] name = "env" /\ t = "Env" -> [q EXCEPT !.block[1].Env = <<v>> \o @]
          [] name = "reads" /\ t = "Reads" -> [q EXCEPT !.block[1].Reads = <<v>> \o @]
          [] name = "stdin" /\ t = "Stdin" -> [q EXCEPT !.block[1].Stdin = Ptr(v)]
          [] name = "exit" /\ t = "Exit" -> [q EXCEPT !.block[1].Exit = <<v>> \o @]
          [] name = "stdout" /\ t = "Stdout" -> [q EXCEPT !.block[1].Stdout = Ptr(v)]
          [] name = "stderr" /\ t = "Stderr" -> [q EXCEPT !.block[1].Stderr = Ptr(v)]
          [] name = "sets" /\ t = "Sets" -> [q EXCEPT !.block[1].Sets = <<v>> \o @]
          [] name = "writes" /\ t = "Writes" -> [q EXCEPT !.block[1].Writes = <<v>> \o @]
          [] name = "deprecated" /\ t = "Deprecated" ->
                [q EXCEPT !.block[1].Deprecated = Ptr(v)]
          [] OTHER -> q

\* A variant of applyTagToBlock in which a singular field that is set
\* already keeps its record.
applyTagToBlockKeepFirst(q, name, result) ==
    LET t == result[1].type
        v == result[1].v
    IN  CASE name = "flag" /\ t = "Flag" -> [q EXCEPT !.block[1].Flags = Append(@, v)]
          [] name = "option" /\ t = "Option" -> [q EXCEPT !.block[1].Options = Append(@, v)]
          [] name = "operand" /\ t = "Operand" -> [q EXCEPT !.block[1].Operands = Append(@, v)]
          [] name = "env" /\ t = "Env" -> [q EXCEPT !.block[1].Env = Append(@, v)]
          [] name = "reads" /\ t = "Reads" -> [q EXCEPT !.block[1].Reads = Append(@, v)]
          [] name = "stdin" /\ t = "Stdin" ->
                [q EXCEPT !.block[1].Stdin = IF @ = Nil THEN Ptr(v) ELSE @]
          [] name = "exit" /\ t = "Exit" -> [q EXCEPT !.block[1].Exit = Append(@, v)]
          [] name = "stdout" /\ t = "Stdout" ->
                [q EXCEPT !.block[1].Stdout = IF @ = Nil THEN Ptr(v) ELSE @]
          [] name = "stderr" /\ t = "Stderr" ->
                [q EXCEPT !.block[1].Stderr = IF @ = Nil THEN Ptr(v) ELSE @]
          [] name = "sets" /\ t = "Sets" -> [q EXCEPT !.block[1].Sets = Append(@, v)]
          [] name = "writes" /\ t = "Writes" -> [q EXCEPT !.block[1].Writes = Append(@, v)]
          [] name = "deprecated" /\ t = "Deprecated" ->
                [q EXCEPT !.block[1].Deprecated = IF @ = Nil THEN Ptr(v) ELSE @]
          [] OTHER -> q

\* applyTagToBlock: attach the record to the field of p.block its name (and
\* its dynamic type) selects; the collection fields append, the singular
\* fields are overwritten.
applyTagToBlock(q, name, result) ==
    LET t == result[1].type
        v == result[1].v
    IN  CASE name = "flag" /\ t = "Flag" -> [q EXCEPT !.block[1].Flags = Append(@, v)]
          [] name = "option" /\ t = "Option" -> [q EXCEPT !.block[1].Options = Append(@, v)]
          [] name = "operand" /\ t = "Operand" -> [q EXCEPT !.block[1].Operands = Append(@, v)]
          [] name = "env" /\ t = "Env" -> [q EXCEPT !.block[1].Env = Append(@, v)]
          [] name = "reads" /\ t = "Reads" -> [q EXCEPT !.block[1].Reads = Append(@, v)]
          [] name = "stdin" /\ t = "Stdin" -> [q EXCEPT !.block[1].Stdin = Ptr(v)]
          [] name = "exit" /\ t = "Exit" -> [q EXCEPT !.block[1].Exit = Append(@, v)]
          [] name = "stdout" /\ t = "Stdout" -> [q EXCEPT !.block[1].Stdout = Ptr(v)]
          [] name = "stderr" /\ t = "Stderr" -> [q EXCEPT !.block[1].Stderr = Ptr(v)]
          [] name = "sets" /\ t = "Sets" -> [q EXCEPT !.block[1].Sets = Append(@, v)]
          [] name = "writes" /\ t = "Writes" -> [q EXCEPT !.block[1].Writes = Append(@, v)]
          [] name = "deprecated" /\ t = "Deprecated" ->
                [q EXCEPT !.block[1].Deprecated = Ptr(v)]
          [] OTHER -> q

\* A variant of finalizeCurrentTag that attaches no record whose
\* description (message, for Deprecated) is empty.
finalizeCurrentTagDropsEmpty(q) ==
    IF q.currentTag = "" \/ q.currentResult = Nil THEN
        [q EXCEPT !.currentTag = "", !.currentResult = Nil, !.tagContLines = << >>]
    ELSE
        LET result == IF Len(q.tagContLines) > 0
                      THEN appendTagDescription(q.currentResult,
                                                Join(q.tagContLines, " "))
                      ELSE q.currentResult
            text == IF result[1].type = "Deprecated" THEN result[1].v.Message
                    ELSE result[1].v.Description
        IN  [(IF text = "" THEN q ELSE applyTagToBlock(q, q.currentTag, result))
                EXCEPT !.currentTag = "", !.currentResult = Nil,
                       !.tagContLines = << >>]

finalizeCurrentTag(q) ==
    IF q.currentTag = "" \/ q.currentResult = Nil THEN
        [q EXCEPT !.currentTag = "", !.currentResult = Nil, !.tagContLines = << >>]
    ELSE
        LET result == IF Len(q.tagContLines) > 0
                      THEN appendTagDescription(q.currentResult,
                                                Join(q.tagContLines, " "))
                      ELSE q.currentResult
        IN  [applyTagToBlock(q, q.currentTag, result)
                EXCEPT !.currentTag = "", !.currentResult = Nil,
                       !.tagContLines = << >>]

\* A variant of finalizeBlock that puts the block in front of the blocks
\* of the Document.
finalizeBlockInFront(q) ==
    IF q.block = Nil THEN q
    ELSE
        LET b == IF Len(q.blockDesc) > 0
                 THEN [q.block[1] EXCEPT !.Description = Join(q.blockDesc, "\n")]
                 ELSE q.block[1]
        IN  [q EXCEPT !.doc.Blocks = <<b>> \o @, !.block = Nil]

finalizeBlock(q) ==
    IF q.block = Nil THEN q
    ELSE
        LET b == IF Len(q.blockDesc) > 0
                 THEN [q.block[1] EXCEPT !.Description = Join(q.blockDesc, "\n")]
                 ELSE q.block[1]
        IN  [q EXCEPT !.doc.Blocks = Append(@, b), !.block = Nil]

\* A variant of attachFuncDecl that binds the declared function to the most
\* recent block whether or not the block has a function already.
attachFuncDeclOverwrite(q, funcName) ==
    IF Len(q.doc.Blocks) > 0
    THEN [q EXCEPT !.doc.Blocks[Len(q.doc.Blocks)].FunctionName = funcName]
    ELSE q

\* handleTop, the function-declaration case: attach the name to the most
\* recent block when that block has none yet.
attachFuncDecl(q, funcName) ==
    IF Len(q.doc.Blocks) > 0 /\ q.doc.Blocks[Len(q.doc.Blocks)].FunctionName = ""
    THEN [q EXCEPT !.doc.Blocks[Len(q.doc.Blocks)].FunctionName = funcName]
    ELSE q

\* A variant of openSheblock that leaves the description buffer and the
\* tag mode as the block before left them.
openSheblockKeepsBuffers(q, vis, extra) ==
    LET h == parseSheblockHeader(vis, extra) IN
    [q EXCEPT !.state = stateSheblock,
              !.block = Ptr(NewBlock(h.visibility, h.name, q.line)),
              !.currentTag = "", !.currentResult = Nil, !.tagContLines = << >>]

\* handleTop, the sheblock-open case: start accumulating a new block.
openSheblock(q, vis, extra) ==
    LET h == parseSheblockHeader(vis, extra) IN
    [q EXCEPT !.state = stateSheblock,
              !.block = Ptr(NewBlock(h.visibility, h.name, q.line)),
              !.blockDesc = << >>, !.inTags = FALSE, !.currentTag = "",
              !.currentResult = Nil, !.tagContLines = << >>]

handleTop(q, line) ==
    IF reShebang(line).ok THEN
        [q EXCEPT !.doc.Shebang = TrimSpace(reShebang(line).m1)]
    ELSE IF reShedocInline(line).ok THEN
        setShedocMeta(q, reShedocInline(line).m1, TrimSpace(reShedocInline(line).m2))
    ELSE IF reShedocOpen(line).ok THEN
        [q EXCEPT !.state = stateShedoc, !.shedocTag = reShedocOpen(line).m1,
                  !.shedocLines = << >>]
    ELSE IF reSheblockOpen(line).ok THEN
        openSheblock(q, reSheblockOpen(line).m1, TrimSpace(reSheblockOpen(line).m2))
    ELSE IF matchFuncDecl(line) # "" THEN
        attachFuncDecl(q, matchFuncDecl(line))
    ELSE q

\* A variant of handleShedoc that trims the continuation lines it gathers
\* and skips the blank ones.
handleShedocTrimmed(q, line) ==
    IF reBlockClose(line).ok THEN
        [finalizeShedoc(q) EXCEPT !.state = stateTop]
    ELSE IF reContinuation(line).ok THEN
        IF TrimSpace(reContinuation(line).m1) = "" THEN q
        ELSE [q EXCEPT !.shedocLines = Append(@, TrimSpace(reContinuation(line).m1))]
    ELSE
        handleTop([finalizeShedoc(q) EXCEPT !.state = stateTop], line)

\* A variant of handleShedoc that consumes the interrupting line instead
\* of reprocessing it at Top.
handleShedocNoReplay(q, line) ==
    IF reBlockClose(line).ok THEN
        [finalizeShedoc(q) EXCEPT !.state = stateTop]
    ELSE IF reContinuation(line).ok THEN
        [q EXCEPT !.shedocLines = Append(@, reContinuation(line).m1)]
    ELSE
        [finalizeShedoc(q) EXCEPT !.state = stateTop]

handleShedoc(q, line) ==
    IF reBlockClose(line).ok THEN
        [finalizeShedoc(q) EXCEPT !.state = stateTop]
    ELSE IF reContinuation(line).ok THEN
        [q EXCEPT !.shedocLines = Append(@, reContinuation(line).m1)]
    ELSE
        handleTop([finalizeShedoc(q) EXCEPT !.state = stateTop], line)

\* handleSheblock, a block-close line.
closeSheblock(q) ==
    [finalizeBlock(finalizeCurrentTag(q)) EXCEPT !.state = stateTop]

\* A variant of interruptSheblock that consumes the interrupting line
\* instead of reprocessing it at Top.
interruptSheblockNoReplay(q, line) ==
    [finalizeBlock(finalizeCurrentTag(q)) EXCEPT !.state = stateTop]

\* handleSheblock, a line that is no continuation line: finalize the block
\* and reprocess the line at Top.
interruptSheblock(q, line) ==
    handleTop([finalizeBlock(finalizeCurrentTag(q)) EXCEPT !.state = stateTop], line)

\* A variant of tagLine that drops a tag its parser rejects without
\* recording a Warning.
tagLineNoWarning(q, tagName, tagText) ==
    LET q1 == [finalizeCurrentTag(q) EXCEPT !.inTags = TRUE]
        t == parseTag(tagName, tagText, q.line)
    IN  IF t.err # NoError THEN q1
        ELSE
            [q1 EXCEPT !.currentTag = t.tagName, !.currentResult = t.result,
                       !.tagContLines = << >>]

\* handleSheblock, an @tag line.
tagLine(q, tagName, tagText) ==
    LET q1 == [finalizeCurrentTag(q) EXCEPT !.inTags = TRUE]
        t == parseTag(tagName, tagText, q.line)
    IN  IF t.err # NoError THEN
            [q1 EXCEPT !.doc.Warnings = Append(@, Warning(q.line, ErrorText(t.err)))]
        ELSE
            [q1 EXCEPT !.currentTag = t.tagName, !.currentResult = t.result,
                       !.tagContLines = << >>]

\* A variant of blankLine in which a blank continuation line leaves the
\* pending tag pending.
blankLineKeepsTag(q) == q

\* handleSheblock, a blank continuation line.
blankLine(q) ==
    IF q.currentTag # "" THEN finalizeCurrentTag(q) ELSE q

\* A variant of contentLine that adds a content line to the block
\* description whenever no tag is pending, tags seen or not.
contentLineAfterTags(q, content) ==
    IF q.currentTag # "" THEN
        [q EXCEPT !.tagContLines = Append(@, TrimSpace(content))]
    ELSE
        [q EXCEPT !.blockDesc = Append(@, content)]

\* A variant of contentLine that keeps a tag continuation line as written,
\* indentation included.
contentLineUntrimmed(q, content) ==
    IF q.currentTag # "" THEN
        [q EXCEPT !.tagContLines = Append(@, content)]
    ELSE IF ~q.inTags THEN
        [q EXCEPT !.blockDesc = Append(@, content)]
    ELSE q

\* handleSheblock, a content line: tag continuation or block description.
contentLine(q, content) ==
    IF q.currentTag # "" THEN
        [q EXCEPT !.tagContLines = Append(@, TrimSpace(content))]
    ELSE IF ~q.inTags THEN
        [q EXCEPT !.blockDesc = Append(@, content)]
    ELSE q

handleSheblock(q, line) ==
    IF reBlockClose(line).ok THEN closeSheblock(q)
    ELSE IF ~reContinuation(line).ok THEN interruptSheblock(q, line)
    ELSE IF splitTag(reContinuation(line).m1).ok THEN
        tagLine(q, splitTag(reContinuation(line).m1).name,
                splitTag(reContinuation(line).m1).text)
    ELSE IF reContinuation(line).m1 = "" THEN blankLine(q)
    ELSE contentLine(q, reContinuation(line).m1)

\* The body of the loop of parser.parse: count the line and hand it to the
\* handler of the current state.
scanStep(q, line) ==
    IF q.state = stateTop THEN handleTop([q EXCEPT !.line = @ + 1], line)
    ELSE IF q.state = stateShedoc THEN handleShedoc([q EXCEPT !.line = @ + 1], line)
    ELSE handleSheblock([q EXCEPT !.line = @ + 1], line)

\* A variant of finishParse that appends the open block at the end of the
\* input without finalizing its pending tag.
finishParseNoTag(q) ==
    IF q.state = stateShedoc THEN finalizeShedoc(q)
    ELSE IF q.state = stateSheblock THEN finalizeBlock(q)
    ELSE q

\* A variant of finishParse that leaves a metadata block open at the end of
\* the input as it is.
finishParseNoMeta(q) ==
    IF q.state = stateSheblock THEN finalizeBlock(finalizeCurrentTag(q))
    ELSE q

\* The code of parser.parse after the loop: finalize what is open.
finishParse(q) ==
    IF q.state = stateShedoc THEN finalizeShedoc(q)
    ELSE IF q.state = stateSheblock THEN finalizeBlock(finalizeCurrentTag(q))
    ELSE q

\* The loop of parser.parse over the lines from position i on.
RECURSIVE scanLines(_, _, _)
scanLines(q, lines, i) ==
    IF i > Len(lines) THEN q ELSE scanLines(scanStep(q, lines[i]), lines, i + 1)

\* parser.parse on a whole input: the loop, then the finalization.
parse(lines) == finishParse(scanLines(NewParser, lines, 1))

(***************************************************************************)
(* The state: one call of Parse or ParseReader.                            *)
(*   vocab  the lines the script under parse is made of                    *)
(*   api    the entry point the caller used                                *)
(*   pc     "open" (Parse is about to open the file), "scan" (the loop of  *)
(*          parser.parse is waiting for the next line), "done" (returned)  *)
(*   input  the lines the scanner has delivered so far                     *)
(*   ioErr  the I/O failure the environment produced: "none", "open" (the  *)
(*          file could not be opened), "read" (the scanner stopped on a    *)
(*          read error or on a line too long for its buffer)               *)
(*   p      the parser struct                                              *)
(*   ret    the (Document, error) pair returned to the caller, Nil before  *)
(*   peer   a second call of ParseReader running at the same time: its pc, *)
(*          input, parser struct and return value; Nil when there is none  *)
(*   formatters  the package's registry of formatters, by name             *)
(*   cli    the shedoc command: its environment, its flags and what it has *)
(*          written to stdout and stderr; Nil when the library is called   *)
(*          directly                                                       *)
(***************************************************************************)
VARIABLES vocab, api, pc, input, ioErr, p, ret, peer, formatters, cli

vars == << vocab, api, pc, input, ioErr, p, ret, peer, formatters, cli >>

\* var formatters = map[string]Formatter{}
NoFormatters == [name \in {} |-> Nil]

\* The path given to Parse.
ScriptPath == "script.sh"

\* ParseReader is called on a reader over a script made of the lines of v.
InitReader(v) ==
    /\ vocab = v
    /\ api = "ParseReader"
    /\ pc = "scan"
    /\ input = << >>
    /\ ioErr = "none"
    /\ p = NewParser
    /\ ret = Nil
    /\ peer = Nil
    /\ formatters = NoFormatters
    /\ cli = Nil

\* Parse is called on the path of a script made of the lines of v.
InitParse(v) ==
    /\ vocab = v
    /\ api = "Parse"
    /\ pc = "open"
    /\ input = << >>
    /\ ioErr = "none"
    /\ p = NewParser
    /\ ret = Nil
    /\ peer = Nil
    /\ formatters = NoFormatters
    /\ cli = Nil

\* Parse: os.Open succeeds and ParseReader is called on the file.
Open ==
    /\ pc = "open"
    /\ pc' = "scan"
    /\ p' = NewParser
    /\ UNCHANGED << vocab, api, input, ioErr, ret, peer, formatters, cli >>

\* Parse: os.Open fails; Parse returns (nil, err).
OpenFail ==
    /\ pc = "open"
    /\ pc' = "done"
    /\ ioErr' = "open"
    /\ ret' = Ptr([doc |-> Nil, err |-> Errorf("open " \o ScriptPath)])
    /\ UNCHANGED << vocab, api, input, p, peer, formatters, cli >>

\* One iteration of the loop of parser.parse: the scanner delivers line l
\* and the handler of the current state handles it.
ScanLine(l) ==
    /\ pc = "scan"
    /\ p.line < MaxLines
    /\ input' = Append(input, l)
    /\ p' = scanStep(p, l)
    /\ UNCHANGED << vocab, api, pc, ioErr, ret, peer, formatters, cli >>

HandleTop == \E l \in vocab : p.state = stateTop /\ ScanLine(l)

HandleShedoc == \E l \in vocab : p.state = stateShedoc /\ ScanLine(l)

HandleSheblock == \E l \in vocab : p.state = stateSheblock /\ ScanLine(l)

\* A variant of returnValue in which Parse leaves Document.Path as
\* ParseReader set it.
returnValueNoPath(entry, q) == Ptr([doc |-> Ptr(q.doc), err |-> NoError])

\* What the entry point returns once parser.parse has returned: ParseReader
\* returns (p.doc, nil), whatever the scanner's error, and Parse sets
\* doc.Path on the document it gets.
returnValue(entry, q) ==
    IF entry = "Parse"
    THEN Ptr([doc |-> Ptr([q.doc EXCEPT !.Path = ScriptPath]), err |-> NoError])
    ELSE Ptr([doc |-> Ptr(q.doc), err |-> NoError])

\* scanner.Scan() returns false at the end of the input.
EndOfInput ==
    /\ pc = "scan"
    /\ p' = finishParse(p)
    /\ ret' = returnValue(api, finishParse(p))
    /\ pc' = "done"
    /\ UNCHANGED << vocab, api, input, ioErr, peer, formatters, cli >>

\* scanner.Scan() returns false because the reader failed or a line is too
\* long for the scanner's buffer; scanner.Err() is never consulted.
ReadError ==
    /\ pc = "scan"
    /\ ioErr' = "read"
    /\ p' = finishParse(p)
    /\ ret' = returnValue(api, finishParse(p))
    /\ pc' = "done"
    /\ UNCHANGED << vocab, api, input, peer, formatters, cli >>

\* ParseValue is called on the string in input[1] and returns.
CallParseValue ==
    /\ pc = "call"
    /\ ret' = Ptr(ParseValue(input[1]))
    /\ pc' = "done"
    /\ UNCHANGED << vocab, api, input, ioErr, p, peer, formatters, cli >>

NextReader ==
    \/ HandleTop
    \/ HandleShedoc
    \/ HandleSheblock
    \/ EndOfInput
    \/ ReadError

Next ==
    \/ Open
    \/ OpenFail
    \/ NextReader

(***************************************************************************)
(* The lines the inputs are drawn from.                                    *)
(***************************************************************************)
\* Block structure: openers, closers, content, tags, function declarations.
BlockLines ==
    {"#@/command", "#?/description", " ##", " #", " # Greets the user",
     " # @flag -v Be loud", " # @flag", " # @stdout Result",
     "greet() {", "function other", "echo hi"}

\* Blocks and function binding, under ParseReader.
Spec == InitReader(BlockLines) /\ [][NextReader]_vars

\* Tag lines of the collection kinds: well-formed ones and ones the tag
\* parser rejects.  "mixed" mixes kinds in one block.
CollectionKinds ==
    {"flag", "option", "operand", "env", "reads", "exit", "sets", "writes"}

GoodTagLines(kind) ==
    CASE kind = "flag" -> {" # @flag -v | --verbose Be loud", " # @flag --quiet"}
      [] kind = "option" ->
            {" # @option -f | --format [type=json] Output format", " # @option -o <file>"}
      [] kind = "operand" -> {" # @operand <file...> Files to read", " # @operand [name]"}
      [] kind = "env" -> {" # @env HOME Home directory", " # @env PATH"}
      [] kind = "reads" -> {" # @reads /etc/hosts Host names", " # @reads ~/.rc"}
      [] kind = "exit" -> {" # @exit 0 Success", " # @exit fail"}
      [] kind = "sets" -> {" # @sets REPLY The answer", " # @sets OUT"}
      [] kind = "writes" -> {" # @writes /tmp/out Result", " # @writes log.txt"}
      [] kind = "mixed" -> {" # @flag -v Be loud", " # @exit 1 Failure"}

BadTagLines(kind) ==
    CASE kind = "flag" -> {" # @flag"}
      [] kind = "option" -> {" # @option", " # @option -f", " # @option -f <file"}
      [] kind = "operand" -> {" # @operand", " # @operand name"}
      [] kind = "env" -> {" # @env"}
      [] kind = "reads" -> {" # @reads"}
      [] kind = "exit" -> {" # @exit"}
      [] kind = "sets" -> {" # @sets"}
      [] kind = "writes" -> {" # @writes"}
      [] kind = "mixed" -> {" # @env", " # @option -f"}

TagLines(kind) ==
    {"#@/command", "#?/description", " ##", " # @bogus text"}
        \cup GoodTagLines(kind) \cup BadTagLines(kind)

\* Blocks of well-formed and malformed tag lines, one tag kind per script.
InitTags == \E kind \in CollectionKinds \cup {"mixed"} : InitReader(TagLines(kind))

SpecTags == InitTags /\ [][NextReader]_vars

\* Content of every quality: unknown file-level and block-level tags,
\* malformed tags, blocks left open.
ContentLines ==
    {"#@/command", "#?/bogus", " ##", " # @flag", " # @nope x",
     " # @flag -v Loud", "echo hi"}

\* Both entry points: Parse on a path and ParseReader on a stream.
InitEntry == InitParse(ContentLines) \/ InitReader(ContentLines)

SpecParse == InitEntry /\ [][Next]_vars

\* The twelve tag kinds, each with a tag line that has a description of
\* its own and one that has none, and continuation lines indented by a
\* blank and by a tab and blanks.
TagKinds == CollectionKinds \cup {"stdin", "stdout", "stderr", "deprecated"}

DescribedTagLine(kind) ==
    CASE kind = "flag" -> " # @flag -v Be loud"
      [] kind = "option" -> " # @option -f <file> Input file"
      [] kind = "operand" -> " # @operand <file> Input file"
      [] kind = "env" -> " # @env HOME Home directory"
      [] kind = "reads" -> " # @reads /etc/hosts Host names"
      [] kind = "exit" -> " # @exit 0 Success"
      [] kind = "sets" -> " # @sets REPLY The answer"
      [] kind = "writes" -> " # @writes /tmp/out Result"
      [] kind = "stdin" -> " # @stdin Input data"
      [] kind = "stdout" -> " # @stdout Result"
      [] kind = "stderr" -> " # @stderr Diagnostics"
      [] kind = "deprecated" -> " # @deprecated Use other"

BareTagLine(kind) ==
    CASE kind = "flag" -> " # @flag -v"
      [] kind = "option" -> " # @option -f <file>"
      [] kind = "operand" -> " # @operand <file>"
      [] kind = "env" -> " # @env HOME"
      [] kind = "reads" -> " # @reads /etc/hosts"
      [] kind = "exit" -> " # @exit 0"
      [] kind = "sets" -> " # @sets REPLY"
      [] kind = "writes" -> " # @writes /tmp/out"
      [] kind = "stdin" -> " # @stdin"
      [] kind = "stdout" -> " # @stdout"
      [] kind = "stderr" -> " # @stderr"
      [] kind = "deprecated" -> " # @deprecated"

ContinuationLines(kind) ==
    {"#@/command", "#?/description", " ##", DescribedTagLine(kind),
     BareTagLine(kind), " # plain text", " #\t  deeply indented  "}

InitContinuation == \E kind \in TagKinds : InitReader(ContinuationLines(kind))

SpecContinuation == InitContinuation /\ [][NextReader]_vars

\* Blocks that repeat one singular tag, with and without text and
\* continuation lines.
SingularKinds == {"stdin", "stdout", "stderr", "deprecated"}

RepeatedTagLines(kind) ==
    {"#@/command", "#?/description", " ##", " # @" \o kind \o " First",
     " # @" \o kind \o " Second", " # @" \o kind, " # and more", " #"}

InitSingular == \E kind \in SingularKinds : InitReader(RepeatedTagLines(kind))

SpecSingular == InitSingular /\ [][NextReader]_vars

\* Block descriptions: text lines, plain and indented, blank lines, a tag
\* that parses and one that does not.
DescriptionLines ==
    {"#@/command", "#?/description", " ##", " #", " # Greets the user",
     " #   indented text", " # @flag -v Be loud", " # @bogus"}

SpecDescription == InitReader(DescriptionLines) /\ [][NextReader]_vars

\* File metadata: block openers and inline lines of known and unknown
\* tags, continuation lines (text, blank, one with blanks and an @ in it),
\* and the lines that can interrupt a metadata block.
MetaLines ==
    {"#?/description", "#?/bogus", "#?/version 1.0.0", "#?/bogus value", " ##",
     " # First line", " #", " #   @flag  -v ", "#@/command", "greet() {",
     "echo hi"}

SpecMeta == InitReader(MetaLines) /\ [][NextReader]_vars

\* A metadata block and an inline line for each of the eight file-level
\* tags, one tag per script.
ShedocTags ==
    {"name", "version", "synopsis", "description", "examples", "section",
     "author", "license"}

MetaTagLines(tag) ==
    {"#?/" \o tag, "#?/" \o tag \o " inline value", " ##", " # First line", " #",
     " #   @flag  -v ", "#@/command"}

InitMetaTags == \E tag \in ShedocTags : InitReader(MetaTagLines(tag))

SpecMetaTags == InitMetaTags /\ [][NextReader]_vars

\* Metadata openers followed by nothing, by one blank or tab, and by
\* several; an inline line; continuation and close lines.
OpenerLines ==
    {"#?/description", "#?/description ", "#?/description\t", "#?/description  ",
     "#?/description \t", "#?/version 1.0.0", " # First line", " ##",
     "#@/command"}

SpecOpeners == InitReader(OpenerLines) /\ [][NextReader]_vars

\* Block openers of every keyword, known, empty and unknown, with and
\* without trailing text.
HeaderLines ==
    {"#@/command", "#@/command extra", "#@/subcommand  deploy app ",
     "#@/subcommand", "#@/public", "#@/private extra", "#@/",
     "#@/internal extra", "#?/description", " ##"}

SpecHeaders == InitReader(HeaderLines) /\ [][NextReader]_vars

\* Value notations: every string made of at most MaxTokens of the tokens
\* of the notation, a name character and a blank.
MaxTokens == 5

Tokens == {"<", ">", "[", "]", "=", "...", "n", " "}

Notations ==
    {Join(toks, "") : toks \in UNION {[1..k -> Tokens] : k \in 0..MaxTokens}}

\* ParseValue is about to be called on the notation s.
InitValue ==
    /\ vocab = {}
    /\ api = "ParseValue"
    /\ pc = "call"
    /\ input \in {<<s>> : s \in Notations}
    /\ ioErr = "none"
    /\ p = NewParser
    /\ ret = Nil
    /\ peer = Nil
    /\ formatters = NoFormatters
    /\ cli = Nil

NextValue == CallParseValue

SpecValue == InitValue /\ [][NextValue]_vars

\* @flag lines with one spelling, with two, with a description and no
\* spelling, and with no text.
FlagLines ==
    {"#@/command", "#?/description", " ##", " #", " # @flag -v Be loud",
     " # @flag -v | --verbose",
     " # @flag Be loud", " # @flag", "greet() {"}

SpecFlags == InitReader(FlagLines) /\ [][NextReader]_vars

\* @option lines: what follows the flag spellings is a value notation, a
\* value notation and a description, nothing, or no value notation.
OptionLines ==
    {"#@/command", "#?/description", " ##", " #",
     " # @option -f | --format [type=json] Output format",
     " # @option -o <file>",
     " # @option --tag [version...]  Version tags",
     " # @option <path> Where",
     " # @option",
     " # @option -f",
     " # @option -f |",
     " # @option -f <file Output file"}

SpecOptions == InitReader(OptionLines) /\ [][NextReader]_vars

(***************************************************************************)
(* The registry of formatters.  In its specification api tells whether    *)
(* the program links internal/generate ("generate") or the package alone  *)
(* ("shedoc"), pc is "init" (init functions are running), "main" (between *)
(* calls) or "range" (inside the loop of RegisteredFormats), input is the *)
(* list of the registrations made after initialization and ret the last   *)
(* call with its result.                                                  *)
(***************************************************************************)
MaxRegistrations == 2

\* A variant of MapSet that keeps the entry a name already has.
MapSetKeepsFirst(m, name, f) ==
    [n \in DOMAIN m \cup {name} |-> IF n \in DOMAIN m THEN m[n] ELSE f]

\* formatters[name] = f
MapSet(m, name, f) ==
    [n \in DOMAIN m \cup {name} |-> IF n = name THEN f ELSE m[n]]

\* formatters[name]: the zero value, a nil Formatter, for a missing key.
MapGet(m, name) == IF name \in DOMAIN m THEN m[name] ELSE Nil

\* The formats the init functions of internal/generate register and the
\* type of the formatter each registers.
BuiltinFormats ==
    {"json", "help", "man", "completion:bash", "completion:zsh", "completion:fish"}

BuiltinFormatter(name) ==
    CASE name = "json" -> "JSONFormatter"
      [] name = "help" -> "HelpTextFormatter"
      [] name = "man" -> "ManPageFormatter"
      [] name = "completion:bash" -> "BashCompletionFormatter"
      [] name = "completion:zsh" -> "ZshCompletionFormatter"
      [] name = "completion:fish" -> "FishCompletionFormatter"

\* The names and formatters of the registrations made after initialization
\* (two stubFormatter values), and the names looked up.
RegisteredNames == {"json", "a"}

StubFormatters == {"stubFormatter1", "stubFormatter2"}

LookupNames == BuiltinFormats \cup {"a", "nope"}

InitFormatters ==
    /\ vocab = {}
    /\ api \in {"generate", "shedoc"}
    /\ pc = IF api = "generate" THEN "init" ELSE "main"
    /\ input = << >>
    /\ ioErr = "none"
    /\ p = NewParser
    /\ ret = Nil
    /\ peer = Nil
    /\ formatters = NoFormatters
    /\ cli = Nil

\* One of the init functions of internal/generate runs; main starts after
\* the last of them.
InitGenerate ==
    /\ pc = "init"
    /\ \E name \in BuiltinFormats \ DOMAIN formatters :
        /\ formatters' = MapSet(formatters, name, Ptr(BuiltinFormatter(name)))
        /\ pc' = IF DOMAIN formatters \cup {name} = BuiltinFormats
                 THEN "main" ELSE "init"
    /\ UNCHANGED << vocab, api, input, ioErr, p, ret, peer, cli >>

RegisterFormatter ==
    /\ pc = "main"
    /\ Len(input) < MaxRegistrations
    /\ \E name \in RegisteredNames, f \in StubFormatters :
        /\ formatters' = MapSet(formatters, name, Ptr(f))
        /\ input' = Append(input, [name |-> name, f |-> Ptr(f)])
    /\ ret' = Nil
    /\ UNCHANGED << vocab, api, pc, ioErr, p, peer, cli >>

GetFormatter ==
    /\ pc = "main"
    /\ \E name \in LookupNames :
        ret' = Ptr([call |-> "GetFormatter", name |-> name,
                    result |-> MapGet(formatters, name)])
    /\ UNCHANGED << vocab, api, pc, input, ioErr, p, peer, formatters, cli >>

\* RegisteredFormats up to its loop: names is made empty.
RegisteredFormats ==
    /\ pc = "main"
    /\ ret' = Ptr([call |-> "RegisteredFormats", names |-> << >>])
    /\ pc' = IF DOMAIN formatters = {} THEN "main" ELSE "range"
    /\ UNCHANGED << vocab, api, input, ioErr, p, peer, formatters, cli >>

\* One iteration of the loop of RegisteredFormats: range delivers the keys
\* of the map once each, in an order of its choice; RegisteredFormats
\* returns after the last.
RangeFormatters ==
    /\ pc = "range"
    /\ \E name \in DOMAIN formatters \ {ret[1].names[i] : i \in DOMAIN ret[1].names} :
        ret' = Ptr([ret[1] EXCEPT !.names = Append(@, name)])
    /\ pc' = IF Len(ret[1].names) + 1 = Cardinality(DOMAIN formatters)
             THEN "main" ELSE "range"
    /\ UNCHANGED << vocab, api, input, ioErr, p, peer, formatters, cli >>

NextFormatters ==
    \/ InitGenerate
    \/ RegisterFormatter
    \/ GetFormatter
    \/ RegisteredFormats
    \/ RangeFormatters

SpecFormatters == InitFormatters /\ [][NextFormatters]_vars

(***************************************************************************)
(* Two calls of ParseReader at the same time, each on a reader of its own. *)
(* ParseReader makes a parser struct and a Document per call (part_010     *)
(* 28-35) and the handlers reach nothing but the struct; the compiled      *)
(* patterns are shared and only read.                                      *)
(***************************************************************************)
MaxPeerLines == 2

NewCall == [pc |-> "scan", input |-> << >>, p |-> NewParser, ret |-> Nil]

\* A variant of peerScan in which the line counter is one variable that
\* both calls use.
peerScanSharedLine(c, l) ==
    [c EXCEPT !.input = Append(@, l),
              !.p = scanStep([@ EXCEPT !.line = p.line], l)]

\* One iteration of the loop of parser.parse in the second call c.
peerScan(c, l) ==
    [c EXCEPT !.input = Append(@, l), !.p = scanStep(@, l)]

PeerScanLine ==
    /\ peer # Nil
    /\ peer[1].pc = "scan"
    /\ peer[1].p.line < MaxPeerLines
    /\ \E l \in vocab : peer' = Ptr(peerScan(peer[1], l))
    /\ UNCHANGED << vocab, api, pc, input, ioErr, p, ret, formatters, cli >>

\* The second call reaches the end of its input and returns.
PeerEndOfInput ==
    /\ peer # Nil
    /\ peer[1].pc = "scan"
    /\ peer' = Ptr([peer[1] EXCEPT !.pc = "done",
                                   !.p = finishParse(@),
                                   !.ret = returnValue("ParseReader", finishParse(peer[1].p))])
    /\ UNCHANGED << vocab, api, pc, input, ioErr, p, ret, formatters, cli >>

ConcurrentLines == {"#?/description", "#@/command", " # @flag -v Be loud"}

InitConcurrent ==
    /\ vocab = ConcurrentLines
    /\ api = "ParseReader"
    /\ pc = "scan"
    /\ input = << >>
    /\ ioErr = "none"
    /\ p = NewParser
    /\ ret = Nil
    /\ peer = Ptr(NewCall)
    /\ formatters = NoFormatters
    /\ cli = Nil

NextConcurrent ==
    \/ HandleTop
    \/ HandleShedoc
    \/ HandleSheblock
    \/ EndOfInput
    \/ PeerScanLine
    \/ PeerEndOfInput

SpecConcurrent == InitConcurrent /\ [][NextConcurrent]_vars

\* A call of ParseReader that keeps running: the loop of parser.parse is
\* sequential code over a finite input, so a step that can be taken is
\* taken.
LiveLines ==
    {"#?/description", "#@/command", " # Greets the user", " # @flag -v Be loud",
     "greet() {"}

SpecLive == InitReader(LiveLines) /\ [][NextReader]_vars /\ WF_vars(NextReader)

\* @flag and @option lines with two spellings, with and without the "|"
\* between them.
SpellingLines ==
    {"#@/command", "#?/description", " ##", " #",
     " # @flag -v | --verbose text",
     " # @flag -v --verbose text",
     " # @flag --verbose |-v text",
     " # @option -f | --format <type> text",
     " # @option -f --format <type> text"}

SpecSpellings == InitReader(SpellingLines) /\ [][NextReader]_vars

\* The tags that take one token and a description, and for each of them a
\* script with the tag followed by nothing, by a blank, by a token, and by
\* a token and a description set off by several blanks.
TokenKinds == {"env", "sets", "reads", "writes", "exit"}

TokenCases == {"", " ", " fail", "  a/b=1   Two  words "}

TokenLine(kind, case) == " # @" \o kind \o case

TokenLines(kind) ==
    {"#@/command", "#?/description", " ##", " #"}
        \cup {TokenLine(kind, case) : case \in TokenCases}

InitTokens == \E kind \in TokenKinds : InitReader(TokenLines(kind))

SpecTokens == InitTokens /\ [][NextReader]_vars

\* Shebang lines and lines that set one file-level tag, inline and as a
\* block, among a block and code.
ShebangLines ==
    {"#!/bin/bash", "#! /bin/sh ", "#?/version 1.0.0", "#?/version 2.0",
     "#?/version", " # 3.0", " ##", "#@/command", "echo hi"}

SpecShebang == InitReader(ShebangLines) /\ [][NextReader]_vars

(***************************************************************************)
(* The dynamic completion hook of the shedoc command.  In its             *)
(* specification input holds the lines of the script, api tells whether   *)
(* completionCandidates is called directly or through runCompleteHandler, *)
(* cli holds the environment (COMP_LINE, COMP_POINT), the arguments and   *)
(* what was written to the writer, and ret holds the returned value       *)
(* together with whether the call panicked.                               *)
(***************************************************************************)

\* The most tokens a command line under completion is made of.
MaxCompTokens == 3

\* unicode.IsSpace on the characters of a command line.
FieldSpace == SpaceChars \cup {"\n"}

\* strings.Fields: the maximal runs of non-space characters.
RECURSIVE FieldsFrom(_, _, _, _)
FieldsFrom(s, i, cur, acc) ==
    IF i > Len(s) THEN (IF cur = "" THEN acc ELSE Append(acc, cur))
    ELSE IF Ch(s, i) \in FieldSpace
    THEN FieldsFrom(s, i + 1, "", IF cur = "" THEN acc ELSE Append(acc, cur))
    ELSE FieldsFrom(s, i + 1, cur \o Ch(s, i), acc)

Fields(s) == FieldsFrom(s, 1, "", << >>)

\* The value of a decimal digit.
DigitValue(c) ==
    CASE c = "0" -> 0 [] c = "1" -> 1 [] c = "2" -> 2 [] c = "3" -> 3
      [] c = "4" -> 4 [] c = "5" -> 5 [] c = "6" -> 6 [] c = "7" -> 7
      [] c = "8" -> 8 [] c = "9" -> 9

\* The digits of s from position i on, read as a number after acc.
RECURSIVE ScanDigits(_, _, _)
ScanDigits(s, i, acc) ==
    IF i > Len(s) \/ Ch(s, i) \notin Digits THEN acc
    ELSE ScanDigits(s, i + 1, acc * 10 + DigitValue(Ch(s, i)))

\* fmt.Sscanf(cp, "%d", &compPoint): the number at the start of cp, after
\* an optional sign, or nothing (Nil) when cp does not start with a number.
Sscanf(cp) ==
    LET signed == Len(cp) > 0 /\ Ch(cp, 1) \in {"-", "+"}
        start == IF signed THEN 2 ELSE 1
    IN  IF start > Len(cp) \/ Ch(cp, start) \notin Digits THEN Nil
        ELSE IF signed /\ Ch(cp, 1) = "-" THEN Ptr(0 - ScanDigits(cp, start, 0))
        ELSE Ptr(ScanDigits(cp, start, 0))

\* strings.ReplaceAll(s, "\t", " ")
RECURSIVE ReplaceTabs(_)
ReplaceTabs(s) ==
    IF s = "" THEN ""
    ELSE (IF Ch(s, 1) = "\t" THEN " " ELSE Ch(s, 1)) \o ReplaceTabs(SliceFrom(s, 1))

\* firstLineCli: the text before the first newline.
firstLineCli(s) ==
    LET idx == IndexAt(s, RunEndNot(s, 1, {"\n"}))
    IN  IF idx >= 0 THEN Slice(s, 0, idx) ELSE s

\* The candidates of the spellings of the flags or options from position i.
RECURSIVE spellingCandidates(_, _)
spellingCandidates(records, i) ==
    IF i > Len(records) THEN << >>
    ELSE (IF records[i].Short # ""
          THEN << [word |-> records[i].Short,
                   description |-> records[i].Description] >>
          ELSE << >>)
         \o (IF records[i].Long # ""
             THEN << [word |-> records[i].Long,
                      description |-> records[i].Description] >>
             ELSE << >>)
         \o spellingCandidates(records, i + 1)

\* flagCandidates: the spellings of the flags, then those of the options.
flagCandidates(block) ==
    spellingCandidates(block.Flags, 1) \o spellingCandidates(block.Options, 1)

\* A variant of isValueOption that compares the word with the short
\* spellings only.
isValueOptionShortOnly(word, blocks) ==
    \E k \in DOMAIN blocks :
        /\ blocks[k] # Nil
        /\ \E j \in DOMAIN blocks[k][1].Options :
            blocks[k][1].Options[j].Short = word

\* isValueOption: some block that is not nil has an option spelled word.
isValueOption(word, blocks) ==
    \E k \in DOMAIN blocks :
        /\ blocks[k] # Nil
        /\ \E j \in DOMAIN blocks[k][1].Options :
            \/ blocks[k][1].Options[j].Short = word
            \/ blocks[k][1].Options[j].Long = word

\* The candidate offered for a subcommand at the top level.
subcommandCandidate(sub) ==
    [word |-> sub.Name,
     description |-> IF sub.Deprecated # Nil
                     THEN "[deprecated] " \o sub.Deprecated[1].Message
                     ELSE firstLineCli(sub.Description)]

\* The candidates of the subcommands from position i on.
RECURSIVE subcommandCandidates(_, _)
subcommandCandidates(subcommands, i) ==
    IF i > Len(subcommands) THEN << >>
    ELSE << subcommandCandidate(subcommands[i]) >>
         \o subcommandCandidates(subcommands, i + 1)

\* The last block of the document with Visibility command, or nil.
commandBlock(doc) ==
    LET at == {i \in DOMAIN doc.Blocks : doc.Blocks[i].Visibility = "command"}
    IN  IF at = {} THEN Nil
        ELSE Ptr(doc.Blocks[CHOOSE i \in at : \A j \in at : j <= i])

\* The blocks of the document with Visibility subcommand, in order.
subcommandBlocks(doc) ==
    SelectSeq(doc.Blocks, LAMBDA b : b.Visibility = "subcommand")

\* The subcommand the words name: for the first word that is the Name of a
\* subcommand, the first subcommand of that Name; nil when there is none.
matchedSubcommand(words, subcommands) ==
    LET named == {k \in DOMAIN words :
                    \E i \in DOMAIN subcommands : subcommands[i].Name = words[k]}
    IN  IF named = {} THEN Nil
        ELSE LET k == CHOOSE k1 \in named : \A k2 \in named : k1 <= k2
                 i == CHOOSE i1 \in DOMAIN subcommands :
                        /\ subcommands[i1].Name = words[k]
                        /\ \A i2 \in DOMAIN subcommands :
                             subcommands[i2].Name = words[k] => i1 <= i2
             IN  Ptr(subcommands[i])

\* The part of completionCandidates after the line has been cut at the
\* cursor.
candidatesOfLine(doc, compLine) ==
    LET allWords == Fields(compLine)
        endsWithSpace == Len(compLine) > 0 /\ Ch(compLine, Len(compLine)) = " "
        partial == ~endsWithSpace /\ Len(allWords) > 1
        curWord == IF partial THEN allWords[Len(allWords)] ELSE ""
        kept == IF partial THEN SubSeq(allWords, 1, Len(allWords) - 1) ELSE allWords
        words == IF Len(kept) > 0 THEN Tail(kept) ELSE kept
        cmdBlock == commandBlock(doc)
        subcommands == subcommandBlocks(doc)
        matchedSub == matchedSubcommand(words, subcommands)
        prevWord == IF Len(words) > 0 THEN words[Len(words)] ELSE ""
        candidates ==
            IF matchedSub # Nil
            THEN flagCandidates(matchedSub[1])
                 \o (IF cmdBlock # Nil THEN flagCandidates(cmdBlock[1]) ELSE << >>)
            ELSE subcommandCandidates(subcommands, 1)
                 \o (IF cmdBlock # Nil THEN flagCandidates(cmdBlock[1]) ELSE << >>)
    IN  IF ~endsWithSpace /\ Len(allWords) = 1 THEN << >>
        ELSE IF cmdBlock = Nil /\ Len(subcommands) = 0 THEN << >>
        ELSE IF prevWord # "" /\ isValueOption(prevWord, << cmdBlock, matchedSub >>)
        THEN << >>
        ELSE IF curWord # ""
        THEN SelectSeq(candidates, LAMBDA c : HasPrefix(c.word, curWord))
        ELSE candidates

\* completionCandidates: the slice expression compLine[:compPoint] panics
\* when compPoint is negative.
completionCandidates(doc, compLine, compPoint) ==
    IF compPoint < Len(compLine) /\ compPoint < 0
    THEN [panic |-> TRUE, candidates |-> << >>]
    ELSE [panic |-> FALSE,
          candidates |-> candidatesOfLine(doc,
                            IF compPoint < Len(compLine)
                            THEN Slice(compLine, 0, compPoint) ELSE compLine)]

\* What runCompleteHandler writes for the candidates from position i on.
RECURSIVE writeCandidates(_, _, _)
writeCandidates(candidates, shell, i) ==
    IF i > Len(candidates) THEN << >>
    ELSE << IF shell = "fish"
            THEN candidates[i].word \o "\t"
                    \o ReplaceTabs(candidates[i].description) \o "\n"
            ELSE candidates[i].word \o "\n" >>
         \o writeCandidates(candidates, shell, i + 1)

\* runCompleteHandler, given the environment, the outcome of shedoc.Parse
\* (the Document, or nil with an error) and the shell: what it writes, what
\* it returns and whether it panics.
runCompleteHandler(env, doc, shell) ==
    LET compLine == env.COMP_LINE
        scanned == IF env.COMP_POINT # "" THEN Sscanf(env.COMP_POINT) ELSE Nil
        compPoint == IF scanned # Nil THEN scanned[1] ELSE Len(compLine)
        result == completionCandidates(doc[1], compLine, compPoint)
    IN  IF compLine = "" THEN [panic |-> FALSE, err |-> NoError, out |-> << >>]
        ELSE IF doc = Nil THEN [panic |-> FALSE, err |-> NoError, out |-> << >>]
        ELSE IF result.panic THEN [panic |-> TRUE, err |-> NoError, out |-> << >>]
        ELSE [panic |-> FALSE, err |-> NoError,
              out |-> writeCandidates(result.candidates, shell, 1)]

\* A script with a command block and two subcommands, one of them
\* deprecated; a script with subcommands only; a script with a public block
\* only; a script without blocks.
DeployScript ==
    << "#@/command",
       " # Manages application deployments.",
       " # @flag -v | --verbose Enable verbose output",
       " # @option -c | --config <path> Path to configuration file",
       " ##",
       "#@/subcommand push",
       " # Push a release.",
       " # More about it.",
       " # @flag -f | --force Force push",
       " # @option --tag <version> Release tag",
       " ##",
       "#@/subcommand status",
       " # @deprecated Use push",
       " ##" >>

SubcommandScript ==
    << "#@/subcommand push", " # @option --tag <version> Release tag", " ##",
       "#@/subcommand push", " # @flag -f", " ##" >>

PublicScript == << "#@/public", " # @flag -v | --verbose", " ##" >>

NoBlockScript == << "#?/name empty" >>

CompleteScripts == {DeployScript, SubcommandScript, PublicScript, NoBlockScript}

\* shedoc.Parse on each of the scripts, worked out once.
CompleteDocs == [script \in CompleteScripts |-> parse(script).doc]

\* The pieces command lines are made of, and the command lines of up to n
\* pieces.
CompTokens == {"deploy ", "push ", "-c ", "--tag ", "-v ", "--", "p"}

RECURSIVE CompLines(_)
CompLines(n) ==
    IF n = 0 THEN {""}
    ELSE LET shorter == CompLines(n - 1)
         IN  shorter \cup {l \o t : l \in shorter, t \in CompTokens}

\* The cursor positions given to completionCandidates, and the values of
\* COMP_POINT in the environment ("" when it is not set).
CompPoints == {-1, 0, 3, 12, 99}

CompPointTexts == {"", "x", "-1", "3", "12", "99"}

Shells == {"bash", "fish"}

\* A caller is about to call completionCandidates on the Document of a
\* script, or the shedoc command is about to run runCompleteHandler on a
\* script path.
InitComplete ==
    /\ vocab = {}
    /\ api \in {"completionCandidates", "runCompleteHandler"}
    /\ pc = "call"
    /\ p = NewParser
    /\ ret = Nil
    /\ peer = Nil
    /\ formatters = NoFormatters
    /\ \/ /\ api = "completionCandidates"
          /\ input \in CompleteScripts
          /\ ioErr = "none"
          /\ \E compLine \in CompLines(MaxCompTokens), compPoint \in CompPoints :
                cli = [env |-> [COMP_LINE |-> "", COMP_POINT |-> ""],
                       args |-> [compLine |-> compLine, compPoint |-> compPoint],
                       shell |-> "", stdout |-> << >>]
       \/ /\ api = "runCompleteHandler"
          /\ input = DeployScript
          /\ ioErr \in {"none", "open"}
          /\ \E compLine \in CompLines(MaxCompTokens), cp \in CompPointTexts,
                shell \in Shells :
                cli = [env |-> [COMP_LINE |-> compLine, COMP_POINT |-> cp],
                       args |-> [compLine |-> "", compPoint |-> 0],
                       shell |-> shell, stdout |-> << >>]

\* A call of completionCandidates(doc, compLine, compPoint).
CallCompletionCandidates ==
    /\ api = "completionCandidates"
    /\ pc = "call"
    /\ pc' = "done"
    /\ ret' = Ptr(completionCandidates(CompleteDocs[input], cli.args.compLine,
                                       cli.args.compPoint))
    /\ UNCHANGED << vocab, api, input, ioErr, p, peer, formatters, cli >>

\* A run of runCompleteHandler(w, scriptPath, shell): shedoc.Parse fails
\* when the script cannot be opened.
CallRunCompleteHandler ==
    /\ api = "runCompleteHandler"
    /\ pc = "call"
    /\ pc' = "done"
    /\ LET doc == IF ioErr = "open" THEN Nil ELSE Ptr(CompleteDocs[input])
           result == runCompleteHandler(cli.env, doc, cli.shell)
       IN  /\ ret' = Ptr([panic |-> result.panic, err |-> result.err])
           /\ cli' = [cli EXCEPT !.stdout = @ \o result.out]
    /\ UNCHANGED << vocab, api, input, ioErr, p, peer, formatters >>

NextComplete == CallCompletionCandidates \/ CallRunCompleteHandler

SpecComplete == InitComplete /\ [][NextComplete]_vars

(***************************************************************************)
(* The root command of shedoc on one file argument, rendered as JSON.  In *)
(* its specification the parse runs as above (Parse for a path,           *)
(* ParseReader for "-"), cli holds the flags --quiet and --warnings, what *)
(* has been written to stderr and to the output and the error returned,   *)
(* and pc moves from "done" to "exit" when runRoot has returned.          *)
(***************************************************************************)

\* The decimal text of a number below one hundred (the %d verb of fmt).
DigitText(n) ==
    CASE n = 0 -> "0" [] n = 1 -> "1" [] n = 2 -> "2" [] n = 3 -> "3"
      [] n = 4 -> "4" [] n = 5 -> "5" [] n = 6 -> "6" [] n = 7 -> "7"
      [] n = 8 -> "8" [] n = 9 -> "9"

Itoa(n) == IF n < 10 THEN DigitText(n) ELSE DigitText(n \div 10) \o DigitText(n % 10)

\* The loop of runRoot over doc.Warnings: one line on stderr per Warning.
warningLines(doc) ==
    [i \in DOMAIN doc.Warnings |->
        (IF doc.Path = "" THEN "<stdin>" ELSE doc.Path) \o ":"
            \o Itoa(doc.Warnings[i].Line) \o ": warning: "
            \o doc.Warnings[i].Message \o "\n"]

\* JSONFormatter.Format: the keys of the encoded object and the values
\* under them; path, shebang, blocks and warnings are left out when empty
\* (omitempty), meta is always there.
FormatJSON(doc) ==
    [key \in {"meta"}
            \cup (IF doc.Path # "" THEN {"path"} ELSE {})
            \cup (IF doc.Shebang # "" THEN {"shebang"} ELSE {})
            \cup (IF doc.Blocks # << >> THEN {"blocks"} ELSE {})
            \cup (IF doc.Warnings # << >> THEN {"warnings"} ELSE {}) |->
        CASE key = "meta" -> doc.Meta
          [] key = "path" -> << doc.Path >>
          [] key = "shebang" -> << doc.Shebang >>
          [] key = "blocks" -> doc.Blocks
          [] key = "warnings" -> doc.Warnings]

\* A variant of runRootOutput that takes --quiet for --warnings when it
\* strips the Warnings.
runRootOutputQuietStrips(flags, result) ==
    IF result.err # NoError
    THEN [stderr |-> << >>, stdout |-> << >>,
          err |-> Errorf("failed to parse: " \o ErrorText(result.err))]
    ELSE LET doc == result.doc[1]
             shown == IF flags.flagQuiet THEN [doc EXCEPT !.Warnings = << >>] ELSE doc
         IN  [stderr |-> IF flags.flagQuiet THEN << >> ELSE warningLines(doc),
              stdout |-> << FormatJSON(shown) >>,
              err |-> NoError]

\* runRoot after parseFiles has returned: the error of the parse is passed
\* on; otherwise the Warnings go to stderr unless --quiet is given, they
\* are taken off the Document unless --warnings is given, and the Document
\* is handed to the json formatter.
runRootOutput(flags, result) ==
    IF result.err # NoError
    THEN [stderr |-> << >>, stdout |-> << >>,
          err |-> Errorf("failed to parse: " \o ErrorText(result.err))]
    ELSE LET doc == result.doc[1]
             shown == IF flags.flagWarnings THEN doc ELSE [doc EXCEPT !.Warnings = << >>]
         IN  [stderr |-> IF flags.flagQuiet THEN << >> ELSE warningLines(doc),
              stdout |-> << FormatJSON(shown) >>,
              err |-> NoError]

\* An unknown file-level tag and an empty @flag tag, which give Warnings, among
\* lines that give none.
RootLines ==
    {"#?/bogus value", "#?/version", "#@/command", " # @flag", " ##"}

\* shedoc [--quiet] [--warnings] <file>, with a path or with "-" for the
\* standard input as the file.
InitRoot ==
    /\ vocab = RootLines
    /\ api \in {"Parse", "ParseReader"}
    /\ pc = IF api = "Parse" THEN "open" ELSE "scan"
    /\ input = << >>
    /\ ioErr = "none"
    /\ p = NewParser
    /\ ret = Nil
    /\ peer = Nil
    /\ formatters = NoFormatters
    /\ \E flagQuiet \in BOOLEAN, flagWarnings \in BOOLEAN :
        cli = [flagQuiet |-> flagQuiet, flagWarnings |-> flagWarnings,
               stderr |-> << >>, stdout |-> << >>, err |-> NoError]

\* parseFiles has returned: runRoot writes its output and returns.
RunRootOutput ==
    /\ pc = "done"
    /\ pc' = "exit"
    /\ LET out == runRootOutput(cli, ret[1])
       IN  cli' = [cli EXCEPT !.stderr = @ \o out.stderr,
                              !.stdout = @ \o out.stdout,
                              !.err = out.err]
    /\ UNCHANGED << vocab, api, input, ioErr, p, ret, peer, formatters >>

NextRoot ==
    \/ Open
    \/ OpenFail
    \/ NextReader
    \/ RunRootOutput

SpecRoot == InitRoot /\ [][NextRoot]_vars

(***************************************************************************)
(* Properties.                                                             *)
(***************************************************************************)
Last(s) == s[Len(s)]

\* The fields of a Block that hold tag records; the singular ones hold at
\* most one.
TagFields ==
    {"Flags", "Options", "Operands", "Env", "Reads", "Stdin", "Exit", "Stdout",
     "Stderr", "Sets", "Writes", "Deprecated"}

\* The source lines of the tag records attached to block b.
RecordLines(b) == UNION {{b[f][i].Line : i \in DOMAIN b[f]} : f \in TagFields}

\* This step is an iteration of the scan loop: one more line was handled.
LineHandled == pc = "scan" /\ pc' = "scan" /\ Len(input') = Len(input) + 1

\* C1: while the parser is in the DocBlock state, a line that is neither a
\* block-close line nor a continuation line finalizes the pending tag and
\* attaches it, appends the block in progress to Document.Blocks exactly as a
\* close line would have left it (the line adds nothing to it), returns to
\* Top, and is then classified by the Top rules: a function declaration
\* binds to the block just appended, a #@/ line opens a new block on this
\* line, a #?/tag line opens a metadata block.
C1_InterruptStep ==
    (/\ LineHandled
     /\ p.state = stateSheblock
     /\ ~reBlockClose(Last(input')).ok
     /\ ~reContinuation(Last(input')).ok)
    =>
    LET l == Last(input')
        n == Len(p.doc.Blocks)
        B == p'.doc.Blocks[n + 1]
    IN  /\ Len(p'.doc.Blocks) = n + 1
        /\ SubSeq(p'.doc.Blocks, 1, n) = p.doc.Blocks
        /\ [B EXCEPT !.FunctionName = ""] = Last(closeSheblock(p).doc.Blocks)
        /\ p.currentResult # Nil => p.currentResult[1].v.Line \in RecordLines(B)
        /\ p'.currentTag = "" /\ p'.currentResult = Nil /\ p'.tagContLines = << >>
        /\ IF HasPrefix(l, "#@/") THEN
               /\ p'.state = stateSheblock
               /\ p'.block # Nil /\ p'.block[1].Line = Len(input')
               /\ RecordLines(p'.block[1]) = {}
               /\ B.FunctionName = ""
           ELSE IF reShedocOpen(l).ok THEN
               /\ p'.state = stateShedoc
               /\ p'.shedocTag = reShedocOpen(l).m1 /\ p'.shedocLines = << >>
               /\ p'.block = Nil
               /\ B.FunctionName = ""
           ELSE
               /\ p'.state = stateTop
               /\ p'.block = Nil
               /\ B.FunctionName = matchFuncDecl(l)

C1_Interrupt == [][C1_InterruptStep]_vars

\* A function declaration has just interrupted a block whose @flag tag, on
\* the line before it, was still pending: the block is in Document.Blocks
\* with the flag attached and the function bound.
C1_Witness ==
    /\ pc = "scan"
    /\ p.state = stateTop
    /\ Len(input) >= 3
    /\ matchFuncDecl(Last(input)) # ""
    /\ Len(p.doc.Blocks) >= 1
    /\ Last(p.doc.Blocks).FunctionName = matchFuncDecl(Last(input))
    /\ Len(Last(p.doc.Blocks).Flags) = 1
    /\ Last(p.doc.Blocks).Flags[1].Line = Len(input) - 1

\* C2: each Block has at most one function bound to it.  A step changes the
\* FunctionName of a block already in Document.Blocks only when it handles
\* a function declaration by the Top rules, only on the last block and only
\* from empty to the declared name; a non-empty FunctionName never changes;
\* a block enters Document.Blocks with no function or with the one the line
\* that interrupted it declares; and a declaration seen at Top while
\* Document.Blocks is empty changes nothing in the document.
C2_FunctionStep ==
    LET n == Len(p.doc.Blocks) IN
    /\ Len(p'.doc.Blocks) >= n
    /\ \A i \in 1..n :
        /\ p.doc.Blocks[i].FunctionName # ""
              => p'.doc.Blocks[i].FunctionName = p.doc.Blocks[i].FunctionName
        /\ p'.doc.Blocks[i].FunctionName # p.doc.Blocks[i].FunctionName
              => /\ i = n
                 /\ LineHandled
                 /\ p.state # stateSheblock
                 /\ p'.doc.Blocks[i].FunctionName = matchFuncDecl(Last(input'))
    /\ \A i \in (n + 1)..Len(p'.doc.Blocks) :
        p'.doc.Blocks[i].FunctionName # ""
              => /\ LineHandled
                 /\ p'.doc.Blocks[i].FunctionName = matchFuncDecl(Last(input'))
    /\ (LineHandled /\ p.state = stateTop /\ n = 0 /\ matchFuncDecl(Last(input')) # "")
              => p'.doc = p.doc /\ p'.state = stateTop

C2_OneFunctionPerBlock == [][C2_FunctionStep]_vars

\* A second, different function declaration has just been handled at Top
\* behind a block that already had its function.
C2_Witness ==
    /\ pc = "scan"
    /\ p.state = stateTop
    /\ Len(p.doc.Blocks) >= 1
    /\ Last(p.doc.Blocks).FunctionName # ""
    /\ Len(input) >= 1
    /\ matchFuncDecl(Last(input)) # ""
    /\ matchFuncDecl(Last(input)) # Last(p.doc.Blocks).FunctionName

\* The line before the one being handled was a close line handled in the
\* DocBlock state: it closed the last block of Document.Blocks.
ClosedByPreviousLine ==
    /\ Len(input) >= 1
    /\ reBlockClose(Last(input)).ok
    /\ scanLines(NewParser, SubSeq(input, 1, Len(input) - 1), 1).state = stateSheblock

\* C3: a Block's FunctionName is bound only by the line immediately
\* following the block's closure: a block that is already closed gets its
\* function only from the line right after its close line; once that line is
\* something else, FunctionName stays empty whatever comes later.
C3_BoundStep ==
    \A i \in 1..Len(p.doc.Blocks) :
        (p.doc.Blocks[i].FunctionName = "" /\ p'.doc.Blocks[i].FunctionName # "")
            => ClosedByPreviousLine

C3_BoundOnlyByNextLine == [][C3_BoundStep]_vars

\* The Document a finished call returned.
Returned == ret[1].doc[1]

\* The messages of a list of Warnings, in order.
Messages(warnings) == [i \in 1..Len(warnings) |-> warnings[i].Message]

\* C4: when the input ends while a DocBlock or a MetaBlock is open,
\* ParseReader returns no error, and the same Meta and the same Blocks as
\* parser.parse builds from the same input with a " ##" close line appended;
\* the missing closer adds no Warning.
C4_EndOfInputClosesBlocks ==
    (pc = "done" /\ ioErr = "none" /\ p.state # stateTop)
    =>
    /\ ret[1].err = NoError
    /\ Returned.Meta = parse(Append(input, " ##")).doc.Meta
    /\ Returned.Blocks = parse(Append(input, " ##")).doc.Blocks
    /\ Messages(Returned.Warnings) = Messages(parse(Append(input, " ##")).doc.Warnings)

\* The input ended inside a block right after a continuation line of a
\* pending @flag tag: the returned block holds the flag with the
\* continuation text appended.
C4_Witness ==
    /\ pc = "done"
    /\ ioErr = "none"
    /\ p.state = stateSheblock
    /\ Len(input) >= 3
    /\ reContinuation(Last(input)).ok
    /\ ~splitTag(reContinuation(Last(input)).m1).ok
    /\ Len(Last(Returned.Blocks).Flags) = 1
    /\ Last(Returned.Blocks).Flags[1].Line = Len(input) - 1
    /\ Last(Returned.Blocks).Flags[1].Description = "Be loud Greets the user"

\* The description (the message, for Deprecated) of the record an `any`
\* result points to; "" for nil.
ResultText(result) ==
    IF result = Nil THEN ""
    ELSE IF result[1].type = "Deprecated" THEN result[1].v.Message
    ELSE result[1].v.Description

\* What the patterns and the tag parser make of line l: whether it continues
\* a block (a continuation line that is no close line), its content and its
\* content trimmed, the @tag it holds, and the tag parser's error and the
\* description it yields for that tag.
FactsOfTag(tag) ==
    [err |-> parseTag(tag.name, tag.text, 0).err,
     own |-> ResultText(parseTag(tag.name, tag.text, 0).result)]

FactsOf(l) ==
    [continues |-> reContinuation(l).ok /\ ~reBlockClose(l).ok,
     content |-> reContinuation(l).m1,
     trimmed |-> TrimSpace(reContinuation(l).m1),
     tag |-> splitTag(reContinuation(l).m1),
     err |-> FactsOfTag(splitTag(reContinuation(l).m1)).err,
     own |-> FactsOfTag(splitTag(reContinuation(l).m1)).own]

\* The lines of all the scripts, and the facts of each, worked out once.
AllLines ==
    BlockLines \cup ContentLines \cup DescriptionLines \cup MetaLines
        \cup OpenerLines \cup HeaderLines
        \cup UNION {TagLines(kind) : kind \in CollectionKinds \cup {"mixed"}}
        \cup UNION {ContinuationLines(kind) : kind \in TagKinds}
        \cup UNION {RepeatedTagLines(kind) : kind \in SingularKinds}
        \cup UNION {MetaTagLines(tag) : tag \in ShedocTags}
        \cup FlagLines \cup OptionLines \cup LiveLines \cup ConcurrentLines
        \cup SpellingLines \cup ShebangLines \cup RootLines
        \cup UNION {TokenLines(kind) : kind \in TokenKinds}

LineFacts == [l \in AllLines |-> FactsOf(l)]

Facts(l) == IF l \in AllLines THEN LineFacts[l] ELSE FactsOf(l)

\* The lines of the input that belong to the block opened on line start:
\* the continuation lines that follow it up to the first line that is a
\* close line or no continuation line.
Extent(start) ==
    {i \in (start + 1)..Len(input) :
        \A j \in (start + 1)..i : Facts(input[j]).continues}

\* The @tag a continuation line holds.
TagAt(i) == Facts(input[i]).tag

\* The error of the tag parser on the tag line i holds.
TagError(i) == Facts(input[i]).err

SingularTags == {"stdin", "stdout", "stderr", "deprecated"}

\* The lines of the block opened on line start that hold a tag of a
\* collection kind or of an unknown name, and among them the ones the tag
\* parser accepts and the ones it rejects.
CollectionTagLines(start) ==
    {i \in Extent(start) : TagAt(i).ok /\ TagAt(i).name \notin SingularTags}

WellFormed(start) ==
    {i \in CollectionTagLines(start) :
        TagError(i) = NoError}

Malformed(start) == CollectionTagLines(start) \ WellFormed(start)

CollectionFields ==
    {"Flags", "Options", "Operands", "Env", "Reads", "Exit", "Sets", "Writes"}

\* The source lines of the records in the collection fields of block b.
CollectionRecordLines(b) ==
    UNION {{b[f][i].Line : i \in DOMAIN b[f]} : f \in CollectionFields}

CollectionRecordCount(b) ==
    Len(b.Flags) + Len(b.Options) + Len(b.Operands) + Len(b.Env) + Len(b.Reads)
        + Len(b.Exit) + Len(b.Sets) + Len(b.Writes)

\* C5: in the returned Document every block holds exactly one record per
\* well-formed collection tag line of the block and none for a malformed
\* or unknown one; the Warnings whose line lies in the block are exactly
\* one per malformed line, with that line's number and the tag parser's
\* message; and there is one Block per #@/ line, malformed tags or not.
C5_MalformedTagsWarn ==
    pc = "done" =>
    /\ \A k \in 1..Len(Returned.Blocks) :
        LET b == Returned.Blocks[k]
            inBlock == {j \in 1..Len(Returned.Warnings) :
                            Returned.Warnings[j].Line \in Extent(b.Line)}
        IN  /\ CollectionRecordCount(b) = Cardinality(WellFormed(b.Line))
            /\ CollectionRecordLines(b) = WellFormed(b.Line)
            /\ Cardinality(inBlock) = Cardinality(Malformed(b.Line))
            /\ \A i \in Malformed(b.Line) :
                \E j \in inBlock :
                    /\ Returned.Warnings[j].Line = i
                    /\ Returned.Warnings[j].Message =
                          ErrorText(TagError(i))
    /\ Len(Returned.Blocks) =
          Cardinality({i \in 1..Len(input) : HasPrefix(input[i], "#@/")})

\* A returned block with one well-formed @flag line, one @flag line its
\* parser rejected and one tag of an unknown name: one Flag, two Warnings.
C5_Witness ==
    /\ pc = "done"
    /\ Len(Returned.Blocks) = 1
    /\ Len(Returned.Blocks[1].Flags) = 1
    /\ Cardinality(Malformed(Returned.Blocks[1].Line)) = 2
    /\ \E i, j \in 1..Len(Returned.Warnings) :
        /\ Returned.Warnings[i].Message = "@flag requires at least one flag name"
        /\ Returned.Warnings[j].Message = "unknown tag @bogus"
        /\ Returned.Warnings[i].Line \in Extent(Returned.Blocks[1].Line)
        /\ Returned.Warnings[j].Line \in Extent(Returned.Blocks[1].Line)

\* C6: ParseReader returns a Document and a nil error whatever the lines
\* it read, with Path empty; Parse returns an error only after an I/O
\* failure, and when it returns none its Document carries the path.
C6_OnlyIOErrors ==
    pc = "done" =>
    /\ api = "ParseReader" =>
        /\ ret[1].doc # Nil
        /\ ret[1].err = NoError
        /\ ret[1].doc[1].Path = ""
    /\ api = "Parse" =>
        /\ ret[1].err # NoError => ioErr \in {"open", "read"}
        /\ ret[1].err = NoError =>
            /\ ret[1].doc # Nil
            /\ ret[1].doc[1].Path = ScriptPath

\* Parse has returned a Document for a script whose block is left open and
\* holds a malformed and an unknown tag.
C6_Witness ==
    /\ pc = "done"
    /\ api = "Parse"
    /\ ioErr = "none"
    /\ ret[1].err = NoError
    /\ ret[1].doc[1].Path = ScriptPath
    /\ p.state = stateSheblock
    /\ Len(ret[1].doc[1].Blocks) = 1
    /\ \E i, j \in 1..Len(ret[1].doc[1].Warnings) :
        /\ ret[1].doc[1].Warnings[i].Message = "unknown tag @nope"
        /\ ret[1].doc[1].Warnings[j].Message = "@flag requires at least one flag name"

\* C7: when the stream fails part-way through the input the caller gets
\* the error and no Document.
C7_ReadErrorSurfaced ==
    (pc = "done" /\ ioErr = "read") =>
        /\ ret[1].err # NoError
        /\ ret[1].doc = Nil

\* Line l is a continuation line that holds text and no @tag.
HoldsContent(l) ==
    /\ Facts(l).continues
    /\ ~Facts(l).tag.ok
    /\ Facts(l).content # ""

IsContentLine(i) == HoldsContent(input[i])

\* The content lines that directly follow line i.
ContentRun(i) ==
    {j \in (i + 1)..Len(input) : \A m \in (i + 1)..j : IsContentLine(m)}

\* Their contents, surrounding whitespace trimmed, in order.
TrimmedRun(i) ==
    [m \in 1..Cardinality(ContentRun(i)) |->
        Facts(input[i + m]).trimmed]

\* The description of a tag record (the message, for Deprecated).
TextOf(field, record) ==
    IF field = "Deprecated" THEN record.Message ELSE record.Description

\* The description the tag line i carries itself.
OwnText(i) == Facts(input[i]).own

\* The tag line's own description and the trimmed continuation contents,
\* one space between neighbours.
ExpectedText(i) ==
    IF OwnText(i) = "" THEN Join(TrimmedRun(i), " ")
    ELSE Join(<<OwnText(i)>> \o TrimmedRun(i), " ")

\* Some later line of the block opened on line start holds a tag of the
\* same name as line i.
SameTagLater(start, i) ==
    \E j \in Extent(start) : j > i /\ TagAt(j).ok /\ TagAt(j).name = TagAt(i).name

\* C8: a well-formed tag line directly followed by one or more content
\* lines yields a record whose description (message, for @deprecated) is
\* the tag line's own description and the trimmed contents of those lines
\* joined by single spaces, with no leading space when the tag line has no
\* description of its own; for each of the twelve tag kinds.
C8_ContinuationJoined ==
    pc = "done" =>
    \A k \in 1..Len(Returned.Blocks) :
        \A i \in Extent(Returned.Blocks[k].Line) :
            (/\ TagAt(i).ok
             /\ TagError(i) = NoError
             /\ ContentRun(i) # {})
            =>
            /\ \A f \in TagFields :
                \A n \in DOMAIN Returned.Blocks[k][f] :
                    Returned.Blocks[k][f][n].Line = i =>
                        TextOf(f, Returned.Blocks[k][f][n]) = ExpectedText(i)
            /\ (TagAt(i).name \notin SingularTags
                    \/ ~SameTagLater(Returned.Blocks[k].Line, i))
                => i \in RecordLines(Returned.Blocks[k])

\* A tag line without a description followed by two continuation lines,
\* one of them indented by a tab and blanks: the record's text is the two
\* contents, trimmed, with one space between them.
C8_Witness ==
    /\ pc = "done"
    /\ Len(input) = 4
    /\ Len(Returned.Blocks) = 1
    /\ TagAt(2).ok /\ TagAt(2).text = ""
    /\ input[3] = " # plain text"
    /\ input[4] = " #\t  deeply indented  "
    /\ \E f \in TagFields :
        /\ Len(Returned.Blocks[1][f]) = 1
        /\ Returned.Blocks[1][f][1].Line = 2
        /\ TextOf(f, Returned.Blocks[1][f][1]) = "plain text deeply indented"

\* The line number of the tag that is pending in the parser.
PendingLine == p.currentResult[1].v.Line

\* Block b holds the record of tag line r, with the text the tag line and
\* the content lines read after it make.
Attached(b, r, text) ==
    /\ r \in RecordLines(b)
    /\ \A f \in TagFields :
        \A n \in DOMAIN b[f] : b[f][n].Line = r => TextOf(f, b[f][n]) = text

\* The tag records of a block in progress.
Records(b) == [f \in TagFields |-> b[f]]

\* C9: in the DocBlock state a pending tag stays unattached while content
\* lines follow it, and the first blank continuation line, @tag line, close
\* line, interrupting line or end of input attaches it to its block with
\* the text gathered so far; a content line read while no tag is pending
\* (after a blank line, say) changes no record of the block and makes no
\* tag pending.
C9_FinalizeStep ==
    /\ (pc = "scan" /\ p.state = stateSheblock /\ p.currentTag # "") =>
            PendingLine \notin RecordLines(p.block[1])
    /\ (LineHandled /\ p.state = stateSheblock /\ p.currentTag # "") =>
        IF HoldsContent(Last(input')) THEN
            /\ p'.currentTag = p.currentTag
            /\ p'.currentResult = p.currentResult
            /\ p'.block = p.block
        ELSE
            /\ p'.currentResult # Nil => p'.currentResult[1].v.Line = Len(input')
            /\ IF p'.state = stateSheblock /\ ~HasPrefix(Last(input'), "#@/")
               THEN Attached(p'.block[1], PendingLine, ExpectedText(PendingLine))
               ELSE Attached(p'.doc.Blocks[Len(p.doc.Blocks) + 1], PendingLine,
                             ExpectedText(PendingLine))
    /\ (pc = "scan" /\ pc' = "done" /\ p.state = stateSheblock /\ p.currentTag # "") =>
        Attached(Last(p'.doc.Blocks), PendingLine, ExpectedText(PendingLine))
    /\ (LineHandled /\ p.state = stateSheblock /\ p.currentTag = ""
            /\ HoldsContent(Last(input'))) =>
        /\ Records(p'.block[1]) = Records(p.block[1])
        /\ p'.currentTag = "" /\ p'.currentResult = Nil /\ p'.tagContLines = << >>

C9_PendingTagFinalized == [][C9_FinalizeStep]_vars

\* A blank continuation line has attached the pending @flag and the
\* content line after it has not reached the flag's description.
C9_Witness ==
    /\ pc = "scan"
    /\ input = <<"#@/command", " # @flag -v Be loud", " #", " # Greets the user">>
    /\ p.state = stateSheblock
    /\ p.currentTag = ""
    /\ Len(p.block[1].Flags) = 1
    /\ p.block[1].Flags[1].Description = "Be loud"
    /\ p.block[1].Flags[1].Line = 2

\* The Block field of a singular tag.
SingularField(name) ==
    CASE name = "stdin" -> "Stdin"
      [] name = "stdout" -> "Stdout"
      [] name = "stderr" -> "Stderr"
      [] name = "deprecated" -> "Deprecated"

\* The lines of the block opened on line start that hold the tag name.
LinesOfTag(start, name) ==
    {i \in Extent(start) : TagAt(i).ok /\ TagAt(i).name = name}

LastOf(S) == CHOOSE i \in S : \A j \in S : j <= i

\* C10: a returned block in which a singular tag occurs on several lines
\* holds one record for it, built from the last of those lines (its line
\* number, its text, its continuation lines), and no record of the lines
\* before; a block in which the tag does not occur holds none.
C10_LastSingularWins ==
    pc = "done" =>
    \A k \in 1..Len(Returned.Blocks) :
        \A name \in SingularTags :
            IF LinesOfTag(Returned.Blocks[k].Line, name) = {}
            THEN Returned.Blocks[k][SingularField(name)] = Nil
            ELSE
                /\ Returned.Blocks[k][SingularField(name)] # Nil
                /\ Returned.Blocks[k][SingularField(name)][1].Line =
                      LastOf(LinesOfTag(Returned.Blocks[k].Line, name))
                /\ TextOf(SingularField(name),
                          Returned.Blocks[k][SingularField(name)][1]) =
                      ExpectedText(LastOf(LinesOfTag(Returned.Blocks[k].Line, name)))
                /\ RecordLines(Returned.Blocks[k])
                        \cap LinesOfTag(Returned.Blocks[k].Line, name) =
                      {LastOf(LinesOfTag(Returned.Blocks[k].Line, name))}

\* A block with the same singular tag on lines 2 and 4, the first with a
\* continuation line: the block holds the record of line 4 alone.
C10_Witness ==
    /\ pc = "done"
    /\ Len(input) = 4
    /\ Len(Returned.Blocks) = 1
    /\ input[3] = " # and more"
    /\ \E name \in SingularTags :
        /\ input[2] = " # @" \o name \o " First"
        /\ input[4] = " # @" \o name \o " Second"
        /\ Returned.Blocks[1][SingularField(name)] # Nil
        /\ Returned.Blocks[1][SingularField(name)][1].Line = 4
        /\ TextOf(SingularField(name), Returned.Blocks[1][SingularField(name)][1])
              = "Second"
        /\ RecordLines(Returned.Blocks[1]) = {4}

\* The Block field of a collection tag.
CollectionField(name) ==
    CASE name = "flag" -> "Flags"
      [] name = "option" -> "Options"
      [] name = "operand" -> "Operands"
      [] name = "env" -> "Env"
      [] name = "reads" -> "Reads"
      [] name = "exit" -> "Exit"
      [] name = "sets" -> "Sets"
      [] name = "writes" -> "Writes"

\* C11: in every returned Block each collection field lists its records
\* with strictly increasing Line, and their lines are exactly the lines of
\* the block on which a tag of that kind parsed; tags of other kinds in
\* between change nothing in it.
C11_EncounterOrder ==
    pc = "done" =>
    \A k \in 1..Len(Returned.Blocks) :
        /\ \A i \in WellFormed(Returned.Blocks[k].Line) :
            \E n \in DOMAIN Returned.Blocks[k][CollectionField(TagAt(i).name)] :
                Returned.Blocks[k][CollectionField(TagAt(i).name)][n].Line = i
        /\ \A f \in CollectionFields :
            \A n \in DOMAIN Returned.Blocks[k][f] :
                /\ Returned.Blocks[k][f][n].Line \in WellFormed(Returned.Blocks[k].Line)
                /\ CollectionField(TagAt(Returned.Blocks[k][f][n].Line).name) = f
                /\ \A m \in DOMAIN Returned.Blocks[k][f] :
                    m < n => Returned.Blocks[k][f][m].Line < Returned.Blocks[k][f][n].Line

\* A block with an @flag, an @exit and another @flag: the two flags are
\* listed in the order of their lines, the exit between them apart.
C11_Witness ==
    /\ pc = "done"
    /\ input = <<"#@/command", " # @flag -v Be loud", " # @exit 1 Failure",
                 " # @flag -v Be loud">>
    /\ Len(Returned.Blocks) = 1
    /\ Len(Returned.Blocks[1].Flags) = 2
    /\ Returned.Blocks[1].Flags[1].Line = 2
    /\ Returned.Blocks[1].Flags[2].Line = 4
    /\ Len(Returned.Blocks[1].Exit) = 1
    /\ Returned.Blocks[1].Exit[1].Line = 3

\* C12: in every returned Block, Stdin, Stdout, Stderr and Deprecated are
\* each present exactly when a line of the block holds that tag; when the
\* last line of the tag has no text and no continuation line the record is
\* present with an empty description (message), not absent.
C12_PresentIffTagged ==
    pc = "done" =>
    \A k \in 1..Len(Returned.Blocks) :
        \A name \in SingularTags :
            /\ Returned.Blocks[k][SingularField(name)] # Nil
                <=> LinesOfTag(Returned.Blocks[k].Line, name) # {}
            /\ \A i \in LinesOfTag(Returned.Blocks[k].Line, name) :
                (/\ \A j \in LinesOfTag(Returned.Blocks[k].Line, name) : j <= i
                 /\ TagAt(i).text = ""
                 /\ ContentRun(i) = {})
                =>
                /\ Len(Returned.Blocks[k][SingularField(name)]) = 1
                /\ TextOf(SingularField(name),
                          Returned.Blocks[k][SingularField(name)][1]) = ""
                /\ Returned.Blocks[k][SingularField(name)][1].Line = i

\* A block whose only tag line is a singular tag with no text, closed on
\* the next line: the record is present and empty, the other three absent.
C12_Witness ==
    /\ pc = "done"
    /\ Len(input) = 3
    /\ input[1] = "#@/command"
    /\ input[3] = " ##"
    /\ Len(Returned.Blocks) = 1
    /\ \E name \in SingularTags :
        /\ input[2] = " # @" \o name
        /\ Returned.Blocks[1][SingularField(name)] # Nil
        /\ TextOf(SingularField(name), Returned.Blocks[1][SingularField(name)][1]) = ""
        /\ \A other \in SingularTags \ {name} :
            Returned.Blocks[1][SingularField(other)] = Nil

\* The lines of the block opened on line start that come before its first
\* @tag line and hold text.
DescriptionLinesOf(start) ==
    {i \in Extent(start) :
        /\ Facts(input[i]).content # ""
        /\ \A j \in (start + 1)..i : ~TagAt(j).ok}

\* The members of a set of line numbers, in increasing order.
Ascending(S) ==
    [n \in 1..Cardinality(S) |->
        CHOOSE i \in S : Cardinality({j \in S : j < i}) = n - 1]

\* The contents of the lines of S, in source order.
ContentsOf(S) == [n \in 1..Cardinality(S) |-> Facts(input[Ascending(S)[n]]).content]

\* C13: the Description of a returned Block is the contents of the text
\* lines that precede the block's first @tag line, in order, joined by
\* newlines; blank lines add nothing and nothing after an @tag line, parsed
\* or not, adds to it.
C13_BlockDescription ==
    pc = "done" =>
    \A k \in 1..Len(Returned.Blocks) :
        Returned.Blocks[k].Description =
            Join(ContentsOf(DescriptionLinesOf(Returned.Blocks[k].Line)), "\n")

\* A block with a description line, a tag the parser rejects and a text
\* line after it: the description is the first line alone.
C13_Witness ==
    /\ pc = "done"
    /\ input = <<"#@/command", " # Greets the user", " # @bogus", " #   indented text">>
    /\ Len(Returned.Blocks) = 1
    /\ Returned.Blocks[1].Description = "Greets the user"
    /\ Len(Returned.Warnings) = 1

\* The parser after a close line in the place of the line being handled.
ClosedHere == scanStep(p, " ##")

\* C14: a line L that is neither a continuation nor a close line, read in
\* the MetaBlock state, leaves the parser where a close line followed by L
\* at Top leaves it: Meta is the Meta of the closed block unless L is
\* inline metadata, which then sets its field; a #@/ opener starts a block
\* on L's line; a function declaration binds to the last block when that
\* has no function yet.
C14_MetaInterruptStep ==
    (/\ LineHandled
     /\ p.state = stateShedoc
     /\ ~reBlockClose(Last(input')).ok
     /\ ~reContinuation(Last(input')).ok)
    =>
    /\ ClosedHere.state = stateTop
    /\ ClosedHere.shedocTag = ""
    /\ p' = handleTop(ClosedHere, Last(input'))
    /\ IF reShedocInline(Last(input')).ok
            /\ reShedocInline(Last(input')).m1 = "version"
       THEN p'.doc.Meta = [ClosedHere.doc.Meta EXCEPT !.Version = "1.0.0"]
       ELSE p'.doc.Meta = ClosedHere.doc.Meta
    /\ HasPrefix(Last(input'), "#@/") =>
        /\ p'.state = stateSheblock
        /\ p'.block # Nil /\ p'.block[1].Line = Len(input')
        /\ p'.doc.Blocks = p.doc.Blocks
    /\ (matchFuncDecl(Last(input')) # "" /\ Len(p.doc.Blocks) > 0) =>
        /\ p'.state = stateTop
        /\ Last(p'.doc.Blocks).FunctionName =
              IF Last(p.doc.Blocks).FunctionName = ""
              THEN matchFuncDecl(Last(input'))
              ELSE Last(p.doc.Blocks).FunctionName

C14_MetaInterrupt == [][C14_MetaInterruptStep]_vars

\* An inline #?/version line has interrupted a #?/description block with
\* one line: both fields are set and the parser is at Top.
C14_Witness ==
    /\ pc = "scan"
    /\ input = <<"#?/description", " # First line", "#?/version 1.0.0">>
    /\ p.state = stateTop
    /\ p.doc.Meta.Description = "First line"
    /\ p.doc.Meta.Version = "1.0.0"
    /\ p.doc.Warnings = << >>

\* The file-level tags that have a Meta field, and the field of each.
MetaTags == ShedocTags

MetaField(tag) ==
    CASE tag = "name" -> "Name"
      [] tag = "version" -> "Version"
      [] tag = "synopsis" -> "Synopsis"
      [] tag = "description" -> "Description"
      [] tag = "examples" -> "Examples"
      [] tag = "section" -> "Section"
      [] tag = "author" -> "Author"
      [] tag = "license" -> "License"

\* While the parser is in the MetaBlock state: the line that opened the
\* metadata block (the last line read that continues nothing), its tag, and
\* the contents of the continuation lines read since, prefix stripped.
MetaOpener == LastOf({i \in 1..Len(input) : ~Facts(input[i]).continues})

MetaOpenerTag == reShedocOpen(input[MetaOpener]).m1

MetaContents ==
    [n \in 1..(Len(input) - MetaOpener) |-> Facts(input[MetaOpener + n]).content]

\* C15: in the MetaBlock state a continuation line changes nothing in the
\* Document, whatever it holds; when the block of a recognized tag is
\* finalized (by a close line, an interrupting line or the end of input)
\* its Meta field becomes the contents of all its continuation lines, in
\* order and verbatim, joined by newlines, and no Warning and no Block is
\* added by the block.
C15_MetaVerbatimStep ==
    /\ (LineHandled /\ p.state = stateShedoc /\ Facts(Last(input')).continues) =>
        /\ p'.doc = p.doc
        /\ p'.state = stateShedoc
    /\ (LineHandled /\ p.state = stateShedoc /\ ~Facts(Last(input')).continues
            /\ MetaOpenerTag \in MetaTags) =>
        /\ ClosedHere.doc =
              [p.doc EXCEPT !.Meta[MetaField(MetaOpenerTag)] = Join(MetaContents, "\n")]
        /\ (~reShedocInline(Last(input')).ok \/ reBlockClose(Last(input')).ok) =>
              p'.doc.Meta = ClosedHere.doc.Meta
        /\ reBlockClose(Last(input')).ok => p'.doc = ClosedHere.doc
    /\ (pc = "scan" /\ pc' = "done" /\ p.state = stateShedoc
            /\ MetaOpenerTag \in MetaTags) =>
        p'.doc =
            [p.doc EXCEPT !.Meta[MetaField(MetaOpenerTag)] = Join(MetaContents, "\n")]

C15_MetaVerbatim == [][C15_MetaVerbatimStep]_vars

\* A #?/description block with a line that holds blanks and an @ and a
\* blank line has been closed: the field holds both, as written.
C15_Witness ==
    /\ pc = "scan"
    /\ input = <<"#?/description", " #   @flag  -v ", " #", " ##">>
    /\ p.state = stateTop
    /\ p.doc.Meta.Description = "  @flag  -v \n"
    /\ p.doc.Warnings = << >>
    /\ p.doc.Blocks = << >>

\* The Document with one more Warning.
WithWarning(doc, line, message) ==
    [doc EXCEPT !.Warnings = Append(@, Warning(line, message))]

\* C16: an inline metadata line with a tag that has no Meta field adds one
\* Warning that names the tag, changes no Meta field and no Block, and
\* leaves the parser at Top; a metadata block with such a tag adds, when it
\* is finalized by a close line, an interrupting line or the end of input,
\* one Warning that names the tag and nothing else, and the parser goes
\* on from Top.
C16_UnknownMetaStep ==
    /\ (LineHandled /\ ~Facts(Last(input')).continues
            /\ reShedocInline(Last(input')).ok
            /\ reShedocInline(Last(input')).m1 \notin MetaTags) =>
        /\ p'.doc = WithWarning(ClosedHere.doc, Len(input'),
                        "unknown shedoc tag: #?/" \o reShedocInline(Last(input')).m1)
        /\ p'.doc.Meta = p.doc.Meta \/ p.state = stateShedoc
        /\ p'.state = stateTop
    /\ (LineHandled /\ p.state = stateShedoc /\ ~Facts(Last(input')).continues
            /\ MetaOpenerTag \notin MetaTags) =>
        /\ ClosedHere.doc = WithWarning(p.doc, Len(input'),
                                "unknown shedoc tag: #?/" \o MetaOpenerTag)
        /\ ClosedHere.state = stateTop
        /\ p' = handleTop(ClosedHere, Last(input'))
        /\ reBlockClose(Last(input')).ok => p' = ClosedHere
    /\ (pc = "scan" /\ pc' = "done" /\ p.state = stateShedoc
            /\ MetaOpenerTag \notin MetaTags) =>
        p'.doc = WithWarning(p.doc, Len(input), "unknown shedoc tag: #?/" \o MetaOpenerTag)

C16_UnknownMeta == [][C16_UnknownMetaStep]_vars

\* A closed block and an inline line of the unknown tag bogus, after an
\* inline version: two Warnings, the version kept, no other field set.
C16_Witness ==
    /\ pc = "scan"
    /\ input = <<"#?/version 1.0.0", "#?/bogus", " # First line", "#?/bogus value">>
    /\ p.state = stateTop
    /\ p.doc.Meta = [EmptyMeta EXCEPT !.Version = "1.0.0"]
    /\ p.doc.Blocks = << >>
    /\ p.doc.Warnings = <<Warning(4, "unknown shedoc tag: #?/bogus"),
                           Warning(4, "unknown shedoc tag: #?/bogus")>>

\* C17: at Top a line made of #?/, a tag name and trailing blanks or tabs
\* only enters the MetaBlock state for that tag and assigns nothing.
C17_OpenerStep ==
    (LineHandled /\ p.state = stateTop /\ reShedocOpen(Last(input')).ok) =>
        /\ p'.state = stateShedoc
        /\ p'.shedocTag = reShedocOpen(Last(input')).m1
        /\ p'.doc = p.doc

C17_TrailingBlanksOpen == [][C17_OpenerStep]_vars

Visibilities == {"command", "subcommand", "public", "private"}

\* The blocks of the parser: the ones in the Document and the one in
\* progress.
AllBlocks(q) == q.doc.Blocks \o q.block

\* C18: a #@/ opener starts a Block whose Visibility is its keyword when
\* that is command, subcommand, public or private and public for an empty
\* or any other keyword, whose Name is the trimmed trailing text for
\* subcommand and empty otherwise, and adds no Warning; so every Block has
\* one of the four visibilities and has a Name only when it is a
\* subcommand.
C18_HeaderStep ==
    /\ (LineHandled /\ HasPrefix(Last(input'), "#@/")) =>
        /\ p'.state = stateSheblock
        /\ p'.block # Nil
        /\ p'.block[1].Line = Len(input')
        /\ p'.block[1].Visibility =
              IF reSheblockOpen(Last(input')).m1 \in Visibilities
              THEN reSheblockOpen(Last(input')).m1
              ELSE "public"
        /\ p'.block[1].Name =
              IF reSheblockOpen(Last(input')).m1 = "subcommand"
              THEN TrimSpace(reSheblockOpen(Last(input')).m2)
              ELSE ""
        /\ p'.doc.Warnings = ClosedHere.doc.Warnings
    /\ \A k \in 1..Len(AllBlocks(p')) :
        /\ AllBlocks(p')[k].Visibility \in Visibilities
        /\ AllBlocks(p')[k].Name # "" => AllBlocks(p')[k].Visibility = "subcommand"

C18_Header == [][C18_HeaderStep]_vars

\* Four openers in a row: an unknown keyword with text, a subcommand with
\* a name in blanks, an empty keyword, private with text.
C18_Witness ==
    /\ pc = "done"
    /\ input = <<"#@/internal extra", "#@/subcommand  deploy app ", "#@/",
                 "#@/private extra">>
    /\ Len(Returned.Blocks) = 4
    /\ Returned.Blocks[1].Visibility = "public" /\ Returned.Blocks[1].Name = ""
    /\ Returned.Blocks[2].Visibility = "subcommand"
    /\ Returned.Blocks[2].Name = "deploy app"
    /\ Returned.Blocks[3].Visibility = "public" /\ Returned.Blocks[3].Name = ""
    /\ Returned.Blocks[4].Visibility = "private" /\ Returned.Blocks[4].Name = ""
    /\ Returned.Warnings = << >>

\* The string ParseValue was called on, and what it returned.
Notation == input[1]

Parsed == ret[1]

\* s is written between < and >.
InAngles(s) == Len(s) >= 2 /\ Ch(s, 1) = "<" /\ Ch(s, Len(s)) = ">"

HasEquals(s) == \E i \in 1..Len(s) : Ch(s, i) = "="

\* C19: a Value ParseValue returns without an error has a non-empty Name
\* and is not Required with a Default; a notation in < > that holds an =
\* is rejected with an error.
C19_RequiredNoDefault ==
    (pc = "done" /\ api = "ParseValue") =>
    /\ Parsed.err = NoError =>
        /\ Parsed.val.Name # ""
        /\ ~(Parsed.val.Required /\ Parsed.val.Default # "")
    /\ (InAngles(TrimSpace(Notation)) /\ HasEquals(Notation)) => Parsed.err # NoError

\* ParseValue has rejected <n=n>, and names the reason.
C19_Witness ==
    /\ pc = "done"
    /\ api = "ParseValue"
    /\ Notation = "<n=n>"
    /\ Parsed.err =
          Errorf("invalid value notation: \"<n=n>\" (defaults not allowed in required values)")
    /\ Parsed.val = ZeroValue

\* t is a non-empty text free of whitespace, brackets and =.
PlainText(t) ==
    /\ t # ""
    /\ \A i \in 1..Len(t) :
        Ch(t, i) \notin SpaceChars \cup {"\n", "<", ">", "[", "]", "="}

InSquares(s) == Len(s) >= 2 /\ Ch(s, 1) = "[" /\ Ch(s, Len(s)) = "]"

\* What s holds between its first and its last character.
Between(s) == SubSeq(s, 2, Len(s) - 1)

\* s is <n>, [n], <n...> or [n...] for a plain text n.
IsNameShape(s) == (InAngles(s) \/ InSquares(s)) /\ PlainText(Between(s))

\* s is [n=d] for plain texts n and d.
IsDefaultShape(s) ==
    /\ InSquares(s)
    /\ \E i \in 3..(Len(s) - 2) :
        /\ Ch(s, i) = "="
        /\ PlainText(SubSeq(s, 2, i - 1))
        /\ PlainText(SubSeq(s, i + 1, Len(s) - 1))

\* The notation is parsed and rebuilding it from the fields gives it back.
RoundTrips == Parsed.err = NoError /\ formatValue(Parsed.val) = Notation

\* C20 as stated: every notation of one of the five shapes, its name and
\* default any plain texts, is parsed without error and is given back by
\* formatValue.
C20_RoundTripAnyText ==
    (pc = "done" /\ api = "ParseValue"
        /\ (IsNameShape(Notation) \/ IsDefaultShape(Notation)))
    => RoundTrips

\* C20, amended: a notation of one of the five shapes round-trips when its
\* name is not "..." alone and its default does not end in "...".
C20_RoundTrip ==
    (pc = "done" /\ api = "ParseValue")
    =>
    /\ (IsNameShape(Notation) /\ Between(Notation) # "...") => RoundTrips
    /\ (IsDefaultShape(Notation) /\ ~HasSuffix(Between(Notation), "...")) => RoundTrips

\* [n=n] has been parsed into name n and default n, and formatValue gives
\* [n=n] back.
C20_Witness ==
    /\ pc = "done"
    /\ api = "ParseValue"
    /\ Notation = "[n=n]"
    /\ Parsed.err = NoError
    /\ Parsed.val = [Name |-> "n", Required |-> FALSE, Default |-> "n",
                     Variadic |-> FALSE]
    /\ formatValue(Parsed.val) = "[n=n]"

\* The notation without surrounding whitespace, what it holds between its
\* brackets, and that without a trailing "...".
Trimmed == TrimSpace(Notation)

Bracketed == InAngles(Trimmed) \/ InSquares(Trimmed)

IsVariadic == HasSuffix(Between(Trimmed), "...")

Stem ==
    IF IsVariadic
    THEN SubSeq(Between(Trimmed), 1, Len(Between(Trimmed)) - 3)
    ELSE Between(Trimmed)

\* The positions of the = signs of the stem, and the first of them.
EqualsAt == {i \in 1..Len(Stem) : Ch(Stem, i) = "="}

FirstEquals == CHOOSE i \in EqualsAt : \A j \in EqualsAt : i <= j

StemName == IF EqualsAt = {} THEN Stem ELSE SubSeq(Stem, 1, FirstEquals - 1)

StemDefault == IF EqualsAt = {} THEN "" ELSE SubSeq(Stem, FirstEquals + 1, Len(Stem))

\* C21: ParseValue returns an error and the zero Value exactly when the
\* trimmed notation has fewer than 3 characters, is not written in < > or
\* [ ], has an empty name once the brackets, a trailing "..." and the
\* =default part are taken off, or holds an = in < >; otherwise it returns
\* the name and the default split at the first =, Required for < > and
\* Variadic for a trailing "...".
C21_ValueErrors ==
    (pc = "done" /\ api = "ParseValue") =>
    IF \/ Len(Trimmed) < 3
       \/ ~Bracketed
       \/ StemName = ""
       \/ (InAngles(Trimmed) /\ EqualsAt # {})
    THEN Parsed.err # NoError /\ Parsed.val = ZeroValue
    ELSE
        /\ Parsed.err = NoError
        /\ Parsed.val = [Name |-> StemName, Required |-> InAngles(Trimmed),
                         Default |-> StemDefault, Variadic |-> IsVariadic]

\* [n==] has been parsed: the name is n and the default is the = after the
\* first one.
C21_Witness ==
    /\ pc = "done"
    /\ api = "ParseValue"
    /\ Notation = "[n==]"
    /\ Parsed.err = NoError
    /\ Parsed.val = [Name |-> "n", Required |-> FALSE, Default |-> "=",
                     Variadic |-> FALSE]

\* C22: an @flag tag whose text has no flag spelling, a bare description
\* included, adds no Flag; so no Flag of any block has both Short and Long
\* empty.
C22_FlagHasSpelling ==
    \A i \in DOMAIN AllBlocks(p) : \A k \in DOMAIN AllBlocks(p)[i].Flags :
        AllBlocks(p)[i].Flags[k].Short # "" \/ AllBlocks(p)[i].Flags[k].Long # ""

\* The @option lines by their parts: the flag spellings, the token that
\* follows them and what follows the token.
OptionParts ==
    [l \in OptionLines \ {"#@/command", "#?/description", " ##", " #"} |->
        CASE l = " # @option -f | --format [type=json] Output format" ->
                [short |-> "-f", long |-> "--format", token |-> "[type=json]",
                 remainder |-> "Output format"]
          [] l = " # @option -o <file>" ->
                [short |-> "-o", long |-> "", token |-> "<file>", remainder |-> ""]
          [] l = " # @option --tag [version...]  Version tags" ->
                [short |-> "", long |-> "--tag", token |-> "[version...]",
                 remainder |-> " Version tags"]
          [] l = " # @option <path> Where" ->
                [short |-> "", long |-> "", token |-> "<path>", remainder |-> "Where"]
          [] l = " # @option" ->
                [short |-> "", long |-> "", token |-> "", remainder |-> ""]
          [] l = " # @option -f" ->
                [short |-> "-f", long |-> "", token |-> "", remainder |-> ""]
          [] l = " # @option -f |" ->
                [short |-> "-f", long |-> "", token |-> "", remainder |-> ""]
          [] l = " # @option -f <file Output file" ->
                [short |-> "-f", long |-> "", token |-> "<file",
                 remainder |-> "Output file"]]

OptionValues == [l \in DOMAIN OptionParts |-> ParseValue(OptionParts[l].token)]

\* The @option lines of the block opened on line start.
OptionTagLines(start) == {i \in Extent(start) : input[i] \in DOMAIN OptionParts}

\* The option lines that have a token of valid value notation.
OptionAccepted(l) == OptionParts[l].token # "" /\ OptionValues[l].err = NoError

\* C23: in the returned Document an @option line of a block whose spellings
\* are followed by no token, or by a token that is no valid value notation,
\* gives one Warning and no Option; any other gives no Warning and one
\* Option with the spellings, the parsed token as Value and the trimmed
\* remainder as Description; and the block has no other Option.
C23_OptionValueRequired ==
    pc = "done" =>
    \A k \in 1..Len(Returned.Blocks) :
        /\ \A i \in OptionTagLines(Returned.Blocks[k].Line) :
            /\ Cardinality({j \in 1..Len(Returned.Warnings) :
                                Returned.Warnings[j].Line = i})
                  = IF OptionAccepted(input[i]) THEN 0 ELSE 1
            /\ Cardinality({j \in 1..Len(Returned.Blocks[k].Options) :
                                Returned.Blocks[k].Options[j].Line = i})
                  = IF OptionAccepted(input[i]) THEN 1 ELSE 0
        /\ \A j \in 1..Len(Returned.Blocks[k].Options) :
            /\ Returned.Blocks[k].Options[j].Line
                  \in OptionTagLines(Returned.Blocks[k].Line)
            /\ Returned.Blocks[k].Options[j] =
                  [Short |-> OptionParts[input[Returned.Blocks[k].Options[j].Line]].short,
                   Long |-> OptionParts[input[Returned.Blocks[k].Options[j].Line]].long,
                   Value |-> OptionValues[input[Returned.Blocks[k].Options[j].Line]].val,
                   Description |->
                       TrimSpace(OptionParts[input[Returned.Blocks[k].Options[j].Line]].remainder),
                   Line |-> Returned.Blocks[k].Options[j].Line]

\* A returned block with an @option line that has no token after its
\* spelling, one whose token is no value notation and one with a variadic
\* value and a description: one Option and two Warnings.
C23_Witness ==
    /\ pc = "done"
    /\ input = <<"#@/command", " # @option -f", " # @option -f <file Output file",
                 " # @option --tag [version...]  Version tags">>
    /\ Len(Returned.Warnings) = 2
    /\ Returned.Blocks[1].Options =
          <<[Short |-> "", Long |-> "--tag",
             Value |-> [Name |-> "version", Required |-> FALSE, Default |-> "",
                        Variadic |-> TRUE],
             Description |-> "Version tags", Line |-> 4]>>

\* The metadata lines and the tag lines, and a line with one blank or tab
\* more in the places of a metadata line (before it, after it) and of a tag
\* line (before the @tag text, at its end).
IsMetaLine(l) == HasPrefix(l, "#?/")

IsTagLine(l) == reContinuation(l).ok /\ splitTag(reContinuation(l).m1).ok

PadBefore(l) == {b \o l : b \in BlankOrTab}

PadAfter(l) == {l \o b : b \in BlankOrTab}

PadTagText(l) == {SubSeq(l, 1, 2) \o b \o SubSeq(l, 3, Len(l)) : b \in BlankOrTab}

\* Line i lies in a block a #@/ line opened.
InDocBlock(i) ==
    \E start \in 1..(i - 1) : HasPrefix(input[start], "#@/") /\ i \in Extent(start)

Paddings(i) ==
    IF IsMetaLine(input[i]) THEN PadBefore(input[i]) \cup PadAfter(input[i])
    ELSE IF IsTagLine(input[i]) /\ InDocBlock(i)
    THEN PadTagText(input[i]) \cup PadAfter(input[i])
    ELSE {}

SameResult(a, b) ==
    a.Meta = b.Meta /\ a.Blocks = b.Blocks /\ a.Warnings = b.Warnings

\* C24: a blank or a tab more before the @tag text or at the end of a tag
\* line, or before or after a #?/ metadata line, leaves Meta, Blocks and
\* Warnings of the returned Document as they are.
C24_PaddingIgnored ==
    pc = "done" =>
    \A i \in 1..Len(input) : \A l \in Paddings(i) :
        SameResult(parse([input EXCEPT ![i] = l]).doc, Returned)

\* The names registered so far and the formatter registered last under a
\* name, by the init functions that have to run and the registrations made
\* since; nil for a name never registered.
RegistrationsOf(name) == {i \in 1..Len(input) : input[i].name = name}

EverRegistered ==
    (IF api = "generate" THEN BuiltinFormats ELSE {})
        \cup {input[i].name : i \in 1..Len(input)}

LastRegistered(name) ==
    IF RegistrationsOf(name) # {} THEN input[LastOf(RegistrationsOf(name))].f
    ELSE IF name \in EverRegistered THEN Ptr(BuiltinFormatter(name))
    ELSE Nil

C25_ConcurrentParses ==
    (peer # Nil /\ pc = "done" /\ peer[1].pc = "done") =>
    /\ p = parse(input)
    /\ ret = Ptr([doc |-> Ptr(parse(input).doc), err |-> NoError])
    /\ peer[1].p = parse(peer[1].input)
    /\ peer[1].ret = Ptr([doc |-> Ptr(parse(peer[1].input).doc), err |-> NoError])

\* Both calls have returned, one with a block that holds a flag of line 2
\* and the other with two blocks and no flag.
C25_Witness ==
    /\ peer # Nil
    /\ pc = "done"
    /\ peer[1].pc = "done"
    /\ input = <<"#@/command", " # @flag -v Be loud">>
    /\ peer[1].input = <<"#@/command", "#@/command">>
    /\ Len(Returned.Blocks) = 1
    /\ Len(Returned.Blocks[1].Flags) = 1
    /\ Returned.Blocks[1].Flags[1].Line = 2
    /\ Len(peer[1].ret[1].doc[1].Blocks) = 2

\* The lines of the input that begin with #@/.
OpenerLinesRead == {i \in 1..Len(input) : HasPrefix(input[i], "#@/")}

\* The line on which the block after the k-th begins; past the end of the
\* input for the last block.
NextBlockLine(blocks, k) ==
    IF k < Len(blocks) THEN blocks[k + 1].Line ELSE Len(input) + 1

\* C27: the returned Document has one Block per input line that begins
\* with #@/, in the order of those lines: the blocks' Line values are those
\* line numbers, strictly increasing; and every tag record of a block has a
\* Line greater than the block's and smaller than the next block's.
C27_BlockPerOpener ==
    pc = "done" =>
    /\ Len(Returned.Blocks) = Cardinality(OpenerLinesRead)
    /\ {Returned.Blocks[k].Line : k \in 1..Len(Returned.Blocks)} = OpenerLinesRead
    /\ \A k \in 1..(Len(Returned.Blocks) - 1) :
        Returned.Blocks[k].Line < Returned.Blocks[k + 1].Line
    /\ \A k \in 1..Len(Returned.Blocks) : \A i \in RecordLines(Returned.Blocks[k]) :
        /\ Returned.Blocks[k].Line < i
        /\ i < NextBlockLine(Returned.Blocks, k)

\* Two blocks returned, opened on lines 1 and 3, each with a record of the
\* line after its opener.
C27_Witness ==
    /\ pc = "done"
    /\ Len(Returned.Blocks) = 2
    /\ Returned.Blocks[1].Line = 1
    /\ Returned.Blocks[2].Line = 3
    /\ RecordLines(Returned.Blocks[1]) = {2}
    /\ RecordLines(Returned.Blocks[2]) = {4}

\* Block b after a step, given it was a before: a block that was in the
\* Document is as it was, but for the FunctionName of the last one, which
\* may go from empty to a name; a block that was in progress keeps its
\* header and the records attached to it, a collection field growing at
\* its end and a singular field taking only the record of a later line.
SameButFunction(a, b) ==
    /\ a.FunctionName = ""
    /\ b.FunctionName # ""
    /\ b = [a EXCEPT !.FunctionName = b.FunctionName]

KeepsRecords(a, b) ==
    /\ b.Visibility = a.Visibility
    /\ b.Name = a.Name
    /\ b.Line = a.Line
    /\ \A f \in CollectionFields :
        /\ Len(b[f]) >= Len(a[f])
        /\ SubSeq(b[f], 1, Len(a[f])) = a[f]
    /\ \A f \in SingularTags :
        a[SingularField(f)] # Nil =>
            \/ b[SingularField(f)] = a[SingularField(f)]
            \/ /\ b[SingularField(f)] # Nil
               /\ b[SingularField(f)][1].Line > a[SingularField(f)][1].Line

\* C28: no step removes a block; a step leaves every block of the Document
\* as it was, except that the last one's FunctionName may go from empty to
\* a name; and a record attached to the block in progress is never changed
\* afterwards.
C28_AppendedBlocksFrozen ==
    [][/\ Len(AllBlocks(p')) >= Len(AllBlocks(p))
       /\ \A k \in 1..Len(p.doc.Blocks) :
            \/ p'.doc.Blocks[k] = p.doc.Blocks[k]
            \/ /\ k = Len(p.doc.Blocks)
               /\ k = Len(p'.doc.Blocks)
               /\ SameButFunction(p.doc.Blocks[k], p'.doc.Blocks[k])
       /\ p.block # Nil =>
            KeepsRecords(p.block[1], AllBlocks(p')[Len(p.doc.Blocks) + 1])]_vars

\* A block with a flag was closed and the function declared on the next
\* line has been bound to it.
C28_Witness ==
    /\ pc = "scan"
    /\ input = <<"#@/command", " # @flag -v Be loud", " ##", "greet() {">>
    /\ Len(p.doc.Blocks) = 1
    /\ p.doc.Blocks[1].FunctionName = "greet"
    /\ Len(p.doc.Blocks[1].Flags) = 1

\* The parser state q is consistent.
Consistent(q) ==
    /\ q.state = stateTop =>
        /\ q.block = Nil
        /\ q.currentTag = ""
        /\ q.currentResult = Nil
        /\ q.shedocTag = ""
        /\ q.shedocLines = << >>
    /\ q.state = stateSheblock => q.block # Nil
    /\ q.state = stateShedoc => q.shedocTag # ""
    /\ (q.currentTag # "") <=> (q.currentResult # Nil)
    /\ q.tagContLines # << >> => q.currentTag # ""

\* This step has opened a block, a metadata block.
BlockOpened ==
    /\ p'.block # Nil
    /\ p.block = Nil \/ p.block[1].Line # p'.block[1].Line

MetaBlockOpened ==
    /\ p'.state = stateShedoc
    /\ p.state # stateShedoc \/ ~Facts(Last(input')).continues

\* C29: after every handled line, in Top there is no block in progress, no
\* pending tag and no metadata tag or text; in DocBlock there is a block in
\* progress; in MetaBlock a metadata tag name is set; a pending tag name is
\* set exactly when a pending result is; continuation text is kept only
\* while a tag is pending; and a block just opened has no record, no
\* description, no pending tag and empty buffers, a metadata block just
\* opened no lines.
C29_ConsistentState ==
    [][LineHandled =>
        /\ Consistent(p')
        /\ BlockOpened =>
            /\ p'.block[1] =
                  NewBlock(p'.block[1].Visibility, p'.block[1].Name, Len(input'))
            /\ p'.blockDesc = << >>
            /\ p'.inTags = FALSE
            /\ p'.currentTag = ""
            /\ p'.tagContLines = << >>
        /\ MetaBlockOpened => p'.shedocLines = << >>]_vars

\* A second block was opened by a line that interrupted a block with a
\* description: the first block has the description and the buffer of the
\* second is empty.
C29_Witness ==
    /\ pc = "scan"
    /\ input = <<"#@/command", " # First line", "#@/command">>
    /\ p.state = stateSheblock
    /\ p.doc.Blocks[1].Description = "First line"
    /\ p.block[1].Line = 3
    /\ p.blockDesc = << >>

\* This step is the end of the loop of parser.parse: the call returns.
Returns == pc = "scan" /\ pc' = "done"

\* C30: the parse of a finite input returns; a step of the loop counts one
\* line, has it handled by the Top handler when the state is Top, and, when
\* the state is MetaBlock or DocBlock and the line is no continuation line,
\* by the Top handler once after the open block is finalized; and when the
\* input ends an open metadata block has its lines in Meta, an open block
\* is in Blocks with its description and its pending tag, and the returned
\* Document is the parser's.
C30_Terminates ==
    /\ <>(pc = "done")
    /\ [][/\ LineHandled =>
            /\ p'.line = p.line + 1
            /\ p.state = stateTop =>
                p' = handleTop([p EXCEPT !.line = @ + 1], Last(input'))
            /\ (p.state # stateTop /\ ~reContinuation(Last(input')).ok) =>
                p' = handleTop(ClosedHere, Last(input'))
          /\ Returns =>
            /\ ret'[1].doc[1] = p'.doc
            /\ p'.block = Nil
            /\ p'.currentResult = Nil
            /\ p'.shedocTag = ""
            /\ p.state = stateTop => p'.doc = p.doc
            /\ (p.state = stateShedoc /\ p.shedocTag = "description") =>
                p'.doc.Meta.Description = Join(p.shedocLines, "\n")
            /\ p.state = stateSheblock =>
                /\ Len(p'.doc.Blocks) = Len(p.doc.Blocks) + 1
                /\ Last(p'.doc.Blocks).Line = p.block[1].Line
                /\ p.blockDesc # << >> =>
                    Last(p'.doc.Blocks).Description = Join(p.blockDesc, "\n")
                /\ p.currentResult # Nil =>
                    p.currentResult[1].v.Line \in RecordLines(Last(p'.doc.Blocks))]_vars

\* The input ended in a block with a description and a pending flag: the
\* call has returned the block with both.
C30_Witness ==
    /\ pc = "done"
    /\ ioErr = "none"
    /\ input = <<"#@/command", " # Greets the user", " # @flag -v Be loud">>
    /\ Len(Returned.Blocks) = 1
    /\ Returned.Blocks[1].Description = "Greets the user"
    /\ Len(Returned.Blocks[1].Flags) = 1

\* The Warning w is about a file-level tag.
AboutMetaTag(w) == HasPrefix(w.Message, "unknown shedoc tag: ")

\* C31: the Line of every Warning is the number of the line that holds the
\* tag the Warning is about: an @tag line for a tag of a block, a #?/tag
\* line for a file-level tag, in the inline and in the block form.
C31_WarningLine ==
    \A j \in DOMAIN p.doc.Warnings :
        /\ p.doc.Warnings[j].Line \in 1..Len(input)
        /\ IF AboutMetaTag(p.doc.Warnings[j])
           THEN IsMetaLine(input[p.doc.Warnings[j].Line])
           ELSE IsTagLine(input[p.doc.Warnings[j].Line])

\* The Line values of a list of Warnings never go down.
NonDecreasing(warnings) ==
    \A j \in 1..(Len(warnings) - 1) : warnings[j].Line <= warnings[j + 1].Line

\* C32 as stated: a handled line keeps the Warnings there are as the front
\* of the new list and adds at most one; the Line values along Warnings
\* never go down and lie between 1 and the number of lines read.
C32_WarningsGrowByOne ==
    [][LineHandled =>
        /\ Len(p'.doc.Warnings) >= Len(p.doc.Warnings)
        /\ Len(p'.doc.Warnings) <= Len(p.doc.Warnings) + 1
        /\ SubSeq(p'.doc.Warnings, 1, Len(p.doc.Warnings)) = p.doc.Warnings
        /\ NonDecreasing(p'.doc.Warnings)
        /\ \A j \in DOMAIN p'.doc.Warnings :
            p'.doc.Warnings[j].Line \in 1..Len(input')]_vars

\* C32: a handled line keeps the Warnings there are as the front of the new
\* list and adds at most one, or two when it is a #?/ line that interrupts
\* a metadata block; the Line values along Warnings never go down and lie
\* between 1 and the number of lines read.
C32_WarningsGrow ==
    [][LineHandled =>
        /\ Len(p'.doc.Warnings) >= Len(p.doc.Warnings)
        /\ Len(p'.doc.Warnings) <=
              Len(p.doc.Warnings)
                  + (IF p.state = stateShedoc /\ IsMetaLine(Last(input')) THEN 2 ELSE 1)
        /\ SubSeq(p'.doc.Warnings, 1, Len(p.doc.Warnings)) = p.doc.Warnings
        /\ NonDecreasing(p'.doc.Warnings)
        /\ \A j \in DOMAIN p'.doc.Warnings :
            p'.doc.Warnings[j].Line \in 1..Len(input')]_vars

\* The line "#?/bogus value" interrupted the metadata block of #?/bogus:
\* two Warnings of line 2.
C32_Witness ==
    /\ pc = "scan"
    /\ input = <<"#?/bogus", "#?/bogus value">>
    /\ Len(p.doc.Warnings) = 2
    /\ p.doc.Warnings[1].Line = 2
    /\ p.doc.Warnings[2].Line = 2

\* C33: in the DocBlock state a continuation line with text and no @tag,
\* read when no tag is pending and a tag line has been seen in the block,
\* only advances the line counter: the description buffer, the records of
\* the block, the pending tag and the Document, its Warnings included, stay
\* as they are.
C33_StrayContentIgnored ==
    [][(/\ LineHandled
        /\ p.state = stateSheblock
        /\ p.inTags
        /\ p.currentTag = ""
        /\ HoldsContent(Last(input')))
       => p' = [p EXCEPT !.line = @ + 1]]_vars

\* A content line was read right after an @flag line that failed to parse:
\* when the next @flag line is read the block has the one Warning, no
\* description text and no record, and the pending flag no continuation.
C33_Witness ==
    /\ pc = "scan"
    /\ input = <<"#@/command", " # @flag", " # Greets the user",
                 " # @flag -v Be loud">>
    /\ p.blockDesc = << >>
    /\ Len(p.doc.Warnings) = 1
    /\ p.currentTag = "flag"
    /\ p.tagContLines = << >>
    /\ RecordLines(p.block[1]) = {}

\* What each @flag line and @option line with two spellings has to give:
\* the record, without its Line, or no record and a Warning.
SpellingResult ==
    [l \in SpellingLines \ {"#@/command", "#?/description", " ##", " #"} |->
        CASE l = " # @flag -v | --verbose text" ->
                [field |-> "Flags",
                 record |-> Ptr([Short |-> "-v", Long |-> "--verbose",
                                 Description |-> "text"])]
          [] l = " # @flag -v --verbose text" ->
                [field |-> "Flags",
                 record |-> Ptr([Short |-> "-v", Long |-> "",
                                 Description |-> "--verbose text"])]
          [] l = " # @flag --verbose |-v text" ->
                [field |-> "Flags",
                 record |-> Ptr([Short |-> "-v", Long |-> "--verbose",
                                 Description |-> "text"])]
          [] l = " # @option -f | --format <type> text" ->
                [field |-> "Options",
                 record |-> Ptr([Short |-> "-f", Long |-> "--format",
                                 Value |-> [Name |-> "type", Required |-> TRUE,
                                            Default |-> "", Variadic |-> FALSE],
                                 Description |-> "text"])]
          [] l = " # @option -f --format <type> text" ->
                [field |-> "Options", record |-> Nil]]

\* The record r without its Line.
Unlined(r) == [f \in DOMAIN r \ {"Line"} |-> r[f]]

\* The records of line i in a field of block b, without their Line, in
\* order.
RecordsOfLine(b, field, i) ==
    [j \in 1..Len(SelectSeq(b[field], LAMBDA r : r.Line = i)) |->
        Unlined(SelectSeq(b[field], LAMBDA r : r.Line = i)[j])]

\* C34: a spelling after the first is taken only after a "|": in the
\* returned Document "@flag -v | --verbose text" gives Short -v, Long
\* --verbose and Description text, and "@flag -v --verbose text" gives
\* Short -v, no Long and Description "--verbose text", neither with a
\* Warning; for @option the word after a spelling without "|" is taken as
\* the value token.
C34_SpellingAfterPipe ==
    pc = "done" =>
    \A k \in 1..Len(Returned.Blocks) :
        \A i \in Extent(Returned.Blocks[k].Line) :
            input[i] \in DOMAIN SpellingResult =>
                /\ RecordsOfLine(Returned.Blocks[k], SpellingResult[input[i]].field, i)
                      = SpellingResult[input[i]].record
                /\ Cardinality({j \in 1..Len(Returned.Warnings) :
                                    Returned.Warnings[j].Line = i})
                      = IF SpellingResult[input[i]].record = Nil THEN 1 ELSE 0

\* A returned block with the flag of "-v | --verbose text" and the flag of
\* "-v --verbose text", and no Warning.
C34_Witness ==
    /\ pc = "done"
    /\ input = <<"#@/command", " # @flag -v | --verbose text",
                 " # @flag -v --verbose text">>
    /\ Returned.Warnings = << >>
    /\ Returned.Blocks[1].Flags =
          <<[Short |-> "-v", Long |-> "--verbose", Description |-> "text", Line |-> 2],
            [Short |-> "-v", Long |-> "", Description |-> "--verbose text", Line |-> 3]>>

\* The field of the record of a tag that holds its token.
TokenField(kind) ==
    CASE kind \in {"env", "sets"} -> "Name"
      [] kind \in {"reads", "writes"} -> "Path"
      [] kind = "exit" -> "Code"

\* The token and the description each case has to give; nil for a tag
\* with no text.
TokenExpected(case) ==
    CASE case \in {"", " "} -> Nil
      [] case = " fail" -> Ptr([token |-> "fail", description |-> ""])
      [] case = "  a/b=1   Two  words " ->
            Ptr([token |-> "a/b=1", description |-> "Two  words"])

\* The tag of the script under parse.
TokenKind == CHOOSE kind \in TokenKinds : vocab = TokenLines(kind)

\* The token and description of the records of line i in the field of
\* block b for the tag kind.
TokensOfLine(b, kind, i) ==
    [j \in 1..Len(SelectSeq(b[CollectionField(kind)], LAMBDA r : r.Line = i)) |->
        [token |->
            SelectSeq(b[CollectionField(kind)], LAMBDA r : r.Line = i)[j][TokenField(kind)],
         description |->
            SelectSeq(b[CollectionField(kind)], LAMBDA r : r.Line = i)[j].Description]]

\* C35: in the returned Document an @env, @sets, @reads, @writes or @exit
\* line of a block gives one record whose name, path or code is the first
\* token of the tag text as written and whose Description is the rest
\* trimmed, and no Warning; when the tag has no text it gives no record and
\* one Warning.
C35_TokenTags ==
    pc = "done" =>
    \A k \in 1..Len(Returned.Blocks) :
        \A i \in Extent(Returned.Blocks[k].Line) : \A case \in TokenCases :
            input[i] = TokenLine(TokenKind, case) =>
                /\ TokensOfLine(Returned.Blocks[k], TokenKind, i) = TokenExpected(case)
                /\ Cardinality({j \in 1..Len(Returned.Warnings) :
                                    Returned.Warnings[j].Line = i})
                      = IF TokenExpected(case) = Nil THEN 1 ELSE 0

\* A returned block with an @exit line without text, one with the code
\* fail and one with a code and a description: two Exit records and one
\* Warning.
C35_Witness ==
    /\ pc = "done"
    /\ input = <<"#@/command", " # @exit", " # @exit fail",
                 " # @exit  a/b=1   Two  words ">>
    /\ Len(Returned.Warnings) = 1
    /\ Returned.Warnings[1].Line = 2
    /\ Returned.Blocks[1].Exit =
          <<[Code |-> "fail", Description |-> "", Line |-> 3],
            [Code |-> "a/b=1", Description |-> "Two  words", Line |-> 4]>>

\* The lines read that set Shebang and the ones that set Meta.Version, and
\* the value such a line sets: what follows #! or the tag, trimmed, and for
\* a block opener the contents of the continuation lines after it.
ShebangSetters == {i \in 1..Len(input) : HasPrefix(input[i], "#!") /\ Len(input[i]) > 2}

VersionSetters == {i \in 1..Len(input) : HasPrefix(input[i], "#?/version")}

ShebangSet(i) == TrimSpace(SubSeq(input[i], 3, Len(input[i])))

VersionSet(i) ==
    IF input[i] = "#?/version"
    THEN Join([n \in 1..Cardinality(Extent(i)) |-> Facts(input[i + n]).content], "\n")
    ELSE TrimSpace(SubSeq(input[i], 11, Len(input[i])))

\* C36: in the returned Document Shebang is what the last #! line read
\* set, wherever it stood, and Meta.Version what the last #?/version line
\* set: the value of an inline line, the lines of a block, the empty string
\* for a block without lines; both are empty when no line set them.
C36_LastSetterWins ==
    pc = "done" =>
    /\ Returned.Shebang =
          IF ShebangSetters = {} THEN "" ELSE ShebangSet(LastOf(ShebangSetters))
    /\ Returned.Meta.Version =
          IF VersionSetters = {} THEN "" ELSE VersionSet(LastOf(VersionSetters))

\* A second #! line further down and a #?/version block without lines
\* after an inline #?/version: Shebang is the second interpreter and
\* Version is empty.
C36_Witness ==
    /\ pc = "done"
    /\ Len(input) = 4
    /\ \E i, j \in 1..4 :
        /\ i < j
        /\ input[i] = "#!/bin/bash"
        /\ input[j] = "#! /bin/sh "
    /\ \E i, j \in 1..4 :
        /\ i < j
        /\ input[i] = "#?/version 1.0.0"
        /\ input[j] = "#?/version"
    /\ Returned.Shebang = "/bin/sh"
    /\ Returned.Meta.Version = ""

\* The command line a finished call of completionCandidates worked on: its
\* argument, cut at the cursor when the cursor is inside it.
CutLine ==
    IF cli.args.compPoint < Len(cli.args.compLine)
    THEN SubSeq(cli.args.compLine, 1, cli.args.compPoint)
    ELSE cli.args.compLine

\* The words of the cut line, its partially typed word ("" when the line
\* ends with a blank or holds one word at most) and its complete words
\* after the command name.
LineWords == Fields(CutLine)

PartialWord ==
    IF CutLine # "" /\ Ch(CutLine, Len(CutLine)) # " " /\ Len(LineWords) > 1
    THEN Last(LineWords) ELSE ""

CompleteWords ==
    SubSeq(LineWords, 2,
           IF PartialWord # "" THEN Len(LineWords) - 1 ELSE Len(LineWords))

\* The spellings of a block: for each flag, then each option, the short
\* one and the long one where present.
Spellings(block) ==
    LET both(records) ==
            [n \in 1..(2 * Len(records)) |->
                IF n % 2 = 1 THEN records[(n + 1) \div 2].Short
                ELSE records[n \div 2].Long]
    IN  SelectSeq(both(block.Flags) \o both(block.Options), LAMBDA w : w # "")

\* The command blocks and the subcommand blocks of the document under
\* completion, the subcommand the complete words name, and the blocks whose
\* spellings are in reach: the command block and the named subcommand.
DocBlocks == CompleteDocs[input].Blocks

CommandAt == {i \in DOMAIN DocBlocks : DocBlocks[i].Visibility = "command"}

SubcommandAt == {i \in DOMAIN DocBlocks : DocBlocks[i].Visibility = "subcommand"}

NamedAt ==
    {i \in SubcommandAt :
        /\ \E k \in DOMAIN CompleteWords :
            /\ CompleteWords[k] = DocBlocks[i].Name
            /\ \A k2 \in 1..(k - 1), i2 \in SubcommandAt :
                    CompleteWords[k2] # DocBlocks[i2].Name
        /\ \A i2 \in SubcommandAt : i2 < i => DocBlocks[i2].Name # DocBlocks[i].Name}

CommandSpellings ==
    IF CommandAt = {} THEN << >>
    ELSE Spellings(DocBlocks[CHOOSE i \in CommandAt : \A j \in CommandAt : j <= i])

NamedSpellings ==
    IF NamedAt = {} THEN << >> ELSE Spellings(DocBlocks[CHOOSE i \in NamedAt : TRUE])

OptionSpellingsInReach ==
    UNION {UNION {{DocBlocks[i].Options[j].Short, DocBlocks[i].Options[j].Long}
                    : j \in DOMAIN DocBlocks[i].Options}
            : i \in {i \in CommandAt : \A j \in CommandAt : j <= i} \cup NamedAt}
        \ {""}

\* The words offered by a finished call, in order.
OfferedWords == [i \in DOMAIN ret[1].candidates |-> ret[1].candidates[i].word]

\* The names of the subcommand blocks, in order.
SubcommandNames ==
    LET subs == SelectSeq(DocBlocks, LAMBDA b : b.Visibility = "subcommand")
    IN  [i \in DOMAIN subs |-> subs[i].Name]

\* What is on offer before the partially typed word is looked at.
OffersInReach ==
    IF NamedAt # {} THEN NamedSpellings \o CommandSpellings
    ELSE SubcommandNames \o CommandSpellings

C38_HandlerNeverFails ==
    (pc = "done" /\ api \in {"completionCandidates", "runCompleteHandler"}) =>
        /\ ~ret[1].panic
        /\ api = "runCompleteHandler" =>
            /\ ret[1].err = NoError
            /\ (cli.env.COMP_LINE = "" \/ ioErr = "open") => cli.stdout = << >>

\* The Document the parse of the lines read gives, whatever the flags.
ParsedDocument == returnValue(api, parse(input))[1].doc[1]

====
